---------------------------- MODULE Spec2Model ----------------------------
(***************************************************************************)
(* A model of the call engine of the intercom firmware: the SIP task loop  *)
(* (app/src/tasks/sip.rs), the dialog core (sip_core/src/dialog.rs), the   *)
(* event wiring (sip_core/src/stack.rs) and the INVITE server transaction  *)
(* layer (sip_core/src/transaction.rs).                                    *)
(*                                                                         *)
(* Time.  The code only ever compares an Instant with the current instant  *)
(* or adds a Duration to the current instant, so an Instant is modelled by *)
(* its distance in milliseconds from the current instant, 0 once it has    *)
(* been reached.  When d milliseconds pass, every stored Instant is moved  *)
(* d closer (Elapse).  The task loop sleeps 10 ms per iteration, far below *)
(* every timer of the model, so the clock never skips a pending deadline:  *)
(* a deadline is seen by the first loop iteration at that instant.         *)
(*                                                                         *)
(* Requests.  A request is modelled by the header fields the code reads.   *)
(* Every request carries Via, Call-ID, From and To, and all but the        *)
(* CANCELs of BadCancels a CSeq; the From tag and the To tag may be absent.*)
(* Tags are numbers: the tag "dlg<n>" that Dialog::allocate_tag builds     *)
(* from its counter is n, tags chosen by peers are the numbers in          *)
(* PeerTags, and an absent tag (or the empty local tag) is NoTag.          *)
(*                                                                         *)
(* The other components are modelled after the call engine, each in its    *)
(* own section: registration, the jitter buffer, the codec, the RTP task   *)
(* and its send tick, the UI task and the Audio task.                      *)
(***************************************************************************)
EXTENDS Integers, Sequences, FiniteSets, TLC

VARIABLES
    pc,                 \* position of the SIP task in its loop body
    dialog,             \* SipStack.dialog: state, role, id, original_invite
    next_tag_counter,   \* Dialog.next_tag_counter
    call_ctx,           \* SipTask.call_ctx
    transactions,       \* InviteServerTransactionManager.transactions
    sent,               \* SIP responses put on the socket by the last step
    ui_tx,              \* UiCommands sent by the last step
    audio_tx,           \* AudioCommands sent by the last step
    rtp_tx,             \* RtpCommands sent by the last step
    last,               \* the handler run by the last step, with its input
    msgs_left,          \* SIP datagrams the peers may still send
    cmds_left,          \* button events the UI task may still send
    sleeps_left,        \* sleeps of the task during which a pending instant is reached
    answered,           \* history: keys of the INVITEs the user answered in the current dialog
    acked,              \* history: keys whose transaction has seen an ACK before Timer H
    since_final,        \* history: ms since the last final response was recorded
    ack_since,          \* history: an ACK was handled since that final response
    retransmits,        \* history: retransmissions produced since that final response
    pc_reg,             \* position of the SIP task in its loop (registration only)
    registration,       \* SipStack.registration: RegistrationTransaction
    next_register,      \* SipTask.next_register
    last_reg_state,     \* SipTask.last_reg_state
    reg_sent,           \* REGISTER requests put on the socket by the last step
    reg_ui,             \* UiCommands about registration sent by the last step
    reg_last,           \* the registration step just taken, with what it found
    reg_left,           \* responses and loop iterations the registration run may still take
    since_auth,         \* history: ms since the last 401/407 was handled
    jb,                 \* a JitterBuffer<CAP, FRAME>
    jb_last,            \* the call on the jitter buffer just made, with what it found
    jb_run,             \* a run on a fresh buffer: pushes to come, pushes made, frames popped
    jb_left,            \* calls the jitter buffer may still get
    codec,              \* an RTP packet on its way through pack and unpack
    rtp_task,           \* RtpTask: the fields of the receive side
    rtp_last,           \* the step of the RTP task just taken, with what it found
    rtp_fwd,            \* history: SSRCs forwarded since the last start or stop
    rtp_left,           \* steps the RTP task may still take
    rtp_tick,           \* RtpTask: active and next_tick, and the send tick just rescheduled
    ui_task,            \* UiTask: the fields poll_button uses
    ui_last,            \* the poll of the button just made, with what it found
    ui_hist,            \* history: ms since the press began, ms since an unpaired ShortPress
    ulaw,               \* a run of decode_ulaw and encode_ulaw: its first input and the values since
    audio_on,           \* the run follows the Audio task and its command channel
    audio_q,            \* AudioCommands sent and not yet received by the Audio task
    audio_task,         \* AudioTask: call_state, mode, engine, the device it drives, its place in run
    button,             \* the button, as the last StateChanged event handled reported it
    audio_open,         \* the command channel of the Audio task has a sending end
    audio_last,         \* the step of the Audio task just taken, with what it found
    audio_left          \* commands a run of the Audio task alone may still be sent

callVars == << pc, dialog, next_tag_counter, call_ctx, transactions, sent, ui_tx,
               audio_tx, rtp_tx, last, msgs_left, cmds_left, sleeps_left, answered,
               acked, since_final, ack_since, retransmits >>

regVars == << pc_reg, registration, next_register, last_reg_state, reg_sent,
              reg_ui, reg_last, reg_left, since_auth >>

\* The variables of the other components, which the call engine leaves alone.
jitVars == << jb, jb_last, jb_run, jb_left >>

rtpVars == << rtp_task, rtp_last, rtp_fwd, rtp_left, rtp_tick >>

uiVars == << ui_task, ui_last, ui_hist >>

pttVars == << audio_on, audio_q, audio_task, button, audio_open, audio_last, audio_left >>

audioVars == << ulaw, pttVars >>

otherVars == << regVars, jitVars, codec, rtpVars, uiVars, ulaw >>

vars == << callVars, otherVars, pttVars >>

sipVars == << pc, dialog, next_tag_counter, call_ctx, ui_tx, audio_tx, rtp_tx,
              msgs_left, cmds_left, sleeps_left, answered >>

txHistory == << since_final, ack_since, retransmits >>

-----------------------------------------------------------------------------
(* Bounds of the model *)

MaxMsgs == 2
MaxCmds == 2
MaxSleeps == 3
RingTimeoutSecs == 2
LongMsgs == 3
LongCmds == 1
LongSleeps == 0
LiveMsgs == 1
LiveCmds == 1
PttMsgs == 2
PttCmds == 2
PttSleeps == 0

-----------------------------------------------------------------------------
(* Time *)

Min(a, b) == IF a < b THEN a ELSE b

NoInstant == -1

After(d) == d

Reached(t) == t = 0

Elapse(t, d) == IF t = NoInstant THEN NoInstant ELSE IF t > d THEN t - d ELSE 0

-----------------------------------------------------------------------------
(* INVITE server transactions: sip_core/src/transaction.rs *)

T1 == 500
T2 == 4000
TIMER_H == 500 * 64
TIMER_I == 5000

NoResponse == [status_code |-> 0]

NewTransaction(call_id, cseq, remote) ==
    [ call_id |-> call_id, cseq |-> cseq, remote |-> remote,
      last_response |-> NoResponse, state |-> "Proceeding",
      timer_g_interval |-> T1, next_timer_g |-> NoInstant,
      deadline_h |-> NoInstant, deadline_i |-> NoInstant ]

Matches(tx, call_id, cseq) == tx.call_id = call_id /\ tx.cseq = cseq

\* Iterator::find: the index of the first matching transaction, 0 if none.
FindTx(txs, call_id, cseq) ==
    IF \E i \in 1..Len(txs) : Matches(txs[i], call_id, cseq)
    THEN CHOOSE i \in 1..Len(txs) :
            /\ Matches(txs[i], call_id, cseq)
            /\ \A j \in 1..(i - 1) : ~Matches(txs[j], call_id, cseq)
    ELSE 0

UpdateWithResponse(tx, resp) ==
    IF resp.status_code < 200
    THEN [tx EXCEPT !.last_response = resp]
    ELSE [tx EXCEPT !.last_response = resp,
                    !.state = "Completed",
                    !.timer_g_interval = T1,
                    !.next_timer_g = After(T1),
                    !.deadline_h = After(TIMER_H),
                    !.deadline_i = NoInstant]

TxOnAck(tx) ==
    [tx EXCEPT !.state = "Confirmed",
               !.next_timer_g = NoInstant,
               !.deadline_i = After(TIMER_I)]

\* maybe_retransmit with the back-off dropped: Timer G stays at its interval.
MaybeRetransmitNoBackoff(tx) ==
    IF tx.state # "Completed" THEN [tx |-> tx, out |-> NoResponse]
    ELSE IF tx.deadline_h = NoInstant THEN [tx |-> tx, out |-> NoResponse]
    ELSE IF Reached(tx.deadline_h)
         THEN [tx |-> [tx EXCEPT !.next_timer_g = NoInstant], out |-> NoResponse]
    ELSE IF tx.next_timer_g = NoInstant THEN [tx |-> tx, out |-> NoResponse]
    ELSE IF ~Reached(tx.next_timer_g) THEN [tx |-> tx, out |-> NoResponse]
    ELSE IF tx.last_response # NoResponse
         THEN [tx |-> [tx EXCEPT !.next_timer_g = After(tx.timer_g_interval)],
               out |-> tx.last_response]
    ELSE [tx |-> tx, out |-> NoResponse]

MaybeRetransmit(tx) ==
    IF tx.state # "Completed" THEN [tx |-> tx, out |-> NoResponse]
    ELSE IF tx.deadline_h = NoInstant THEN [tx |-> tx, out |-> NoResponse]
    ELSE IF Reached(tx.deadline_h)
         THEN [tx |-> [tx EXCEPT !.next_timer_g = NoInstant], out |-> NoResponse]
    ELSE IF tx.next_timer_g = NoInstant THEN [tx |-> tx, out |-> NoResponse]
    ELSE IF ~Reached(tx.next_timer_g) THEN [tx |-> tx, out |-> NoResponse]
    ELSE IF tx.last_response # NoResponse
         THEN LET new_interval == Min(tx.timer_g_interval * 2, T2)
              IN  [tx |-> [tx EXCEPT !.timer_g_interval = new_interval,
                                     !.next_timer_g = After(new_interval)],
                   out |-> tx.last_response]
    ELSE [tx |-> tx, out |-> NoResponse]

Expired(tx) ==
    CASE tx.state = "Proceeding" -> FALSE
      [] tx.state = "Completed"  -> tx.deadline_h # NoInstant /\ Reached(tx.deadline_h)
      [] tx.state = "Confirmed"  -> tx.deadline_i # NoInstant /\ Reached(tx.deadline_i)

\* on_invite without the search for an existing transaction.
OnInviteUntracked(txs, req, remote) ==
    [txs |-> Append(txs, NewTransaction(req.call_id, req.cseq, remote)),
     resend |-> NoResponse]

\* InviteServerTransactionManager::on_invite
OnInvite(txs, req, remote) ==
    LET i == FindTx(txs, req.call_id, req.cseq)
    IN  IF i # 0
        THEN [txs |-> txs, resend |-> txs[i].last_response]
        ELSE [txs |-> Append(txs, NewTransaction(req.call_id, req.cseq, remote)),
              resend |-> NoResponse]

\* InviteServerTransactionManager::on_outgoing_response
OnOutgoingResponse(txs, resp, remote) ==
    IF resp.cseq_method # "INVITE" THEN txs
    ELSE LET i == FindTx(txs, resp.call_id, resp.cseq)
         IN  IF i # 0
             THEN [txs EXCEPT ![i] = UpdateWithResponse(txs[i], resp)]
             ELSE Append(txs, UpdateWithResponse(
                                 NewTransaction(resp.call_id, resp.cseq, remote), resp))

\* InviteServerTransactionManager::on_ack
OnAck(txs, ack) ==
    LET i == FindTx(txs, ack.call_id, ack.cseq)
    IN  IF i # 0 THEN [txs EXCEPT ![i] = TxOnAck(txs[i])] ELSE txs

\* InviteServerTransactionManager::poll
Poll(txs) ==
    LET stepped == [i \in 1..Len(txs) |-> MaybeRetransmit(txs[i])]
        due     == SelectSeq(stepped, LAMBDA s : s.out # NoResponse)
    IN  [ txs |-> SelectSeq([i \in 1..Len(txs) |-> stepped[i].tx],
                            LAMBDA tx : ~Expired(tx)),
          out |-> [i \in 1..Len(due) |-> [response |-> due[i].out,
                                          target |-> due[i].tx.remote]] ]

\* Every Instant a transaction stores, d ms later.
ElapseTx(tx, d) ==
    [tx EXCEPT !.next_timer_g = Elapse(tx.next_timer_g, d),
               !.deadline_h = Elapse(tx.deadline_h, d),
               !.deadline_i = Elapse(tx.deadline_i, d)]

ElapseTxs(txs, d) == [i \in 1..Len(txs) |-> ElapseTx(txs[i], d)]

\* The pending deadlines of the transactions (those not yet reached).
TxPending(txs) ==
    UNION { { t \in { txs[i].next_timer_g, txs[i].deadline_h, txs[i].deadline_i } :
              t # NoInstant /\ t > 0 } : i \in 1..Len(txs) }

SetMin(S) == CHOOSE x \in S : \A y \in S : x <= y


-----------------------------------------------------------------------------
(* Values shared by the SIP task and the transaction layer *)

Addrs == { "peerA" }
NoTag == -1
\* A request without a CSeq header.
NoCSeq == -1
PeerTags == { 100, 101 }

Key(m) == << m.call_id, m.cseq >>

TxKeys(txs) == { Key(txs[i]) : i \in 1..Len(txs) }

\* A response as the code reads it back: status line, Call-ID, CSeq, tags, body.
Response(status, req, to_tag, body, contact) ==
    [ status_code |-> status, call_id |-> req.call_id, cseq |-> req.cseq,
      cseq_method |-> req.method, from_tag |-> req.from_tag, to_tag |-> to_tag,
      body |-> body, contact |-> contact ]

NoBody == "none"

Put(resp, addr, how) == [ response |-> resp, target |-> addr, via |-> how ]

Retransmissions(out) == [i \in 1..Len(out) |-> Put(out[i].response, out[i].target, "timer")]

-----------------------------------------------------------------------------
(* Session descriptions.  The parser of the sdp crate that sip.rs is       *)
(* written against (with SessionDescription.media) is not among the        *)
(* sources; a body is modelled by what the specification says of it: a     *)
(* body that is no session description fails to parse, any other yields    *)
(* its connection address, media port and payload type.                    *)

SdpBodies == { "sdpA", "sdpB", "sdpHold", "sdpLong" }

Bodies == { "", "not sdp" } \cup SdpBodies

LongAddrs == { "an address of more than 48 bytes" }

SdpParse(body) ==
    CASE body = "sdpA" ->
           [ ok |-> TRUE, connection_address |-> "192.0.2.5",
             media |-> [ port |-> 20000, payload_type |-> 0 ] ]
      [] body = "sdpB" ->
           [ ok |-> TRUE, connection_address |-> "192.0.2.6",
             media |-> [ port |-> 30000, payload_type |-> 8 ] ]
      [] body = "sdpHold" ->
           [ ok |-> TRUE, connection_address |-> "192.0.2.5",
             media |-> [ port |-> 0, payload_type |-> 0 ] ]
      [] body = "sdpLong" ->
           [ ok |-> TRUE, connection_address |-> "an address of more than 48 bytes",
             media |-> [ port |-> 20000, payload_type |-> 0 ] ]
      [] OTHER -> [ ok |-> FALSE ]

\* SipTask::build_local_sdp
BuildLocalSdp ==
    [ origin |-> "-", connection_address |-> "local_ip",
      media |-> [ port |-> "local_rtp_port", payload_type |-> 0, codec |-> "Pcmu" ] ]

-----------------------------------------------------------------------------
(* The dialog core: sip_core/src/dialog.rs *)

HasId(dlg) == dlg.state \in { "Ringing", "Established" }

\* The headers Dialog::build_response_for_request copies are all there: the
\* requests here carry Via, Call-ID, From and To, and all but some CANCELs a
\* CSeq.  Without one the builder returns an error before it allocates a tag.
Buildable(req) == req.cseq # NoCSeq

\* Dialog::build_response_for_request, with Dialog::allocate_tag inlined.
\* The result carries the dialog (its local tag may be committed here), the
\* tag counter and the response.
BuildResponseForRequest(dlg, counter, req, status, body) ==
    IF req.to_tag # NoTag
    THEN [ dialog |-> dlg, counter |-> counter,
           resp |-> Response(status, req, req.to_tag, body, FALSE) ]
    ELSE LET new_tag == counter
         IN  IF HasId(dlg)
             THEN IF dlg.id.call_id = req.call_id
                  THEN LET committed ==
                               IF dlg.id.local_tag = NoTag
                               THEN [dlg EXCEPT !.id.local_tag = new_tag]
                               ELSE dlg
                       IN  [ dialog |-> committed, counter |-> counter + 1,
                             resp |-> Response(status, req, committed.id.local_tag,
                                               body, FALSE) ]
                  ELSE [ dialog |-> dlg, counter |-> counter + 2,
                         resp |-> Response(status, req, counter + 1, body, FALSE) ]
             ELSE [ dialog |-> dlg, counter |-> counter + 2,
                    resp |-> Response(status, req, counter + 1, body, FALSE) ]

\* Dialog::handle_initial_invite
HandleInitialInvite(req) ==
    [ state |-> "Ringing", role |-> "Uas",
      id |-> [ call_id |-> req.call_id, local_tag |-> NoTag,
               remote_tag |-> req.from_tag ],
      original_invite |-> req ]

\* The in_dialog decision of Dialog::handle_incoming_invite.
InDialog(dlg, req) ==
    /\ HasId(dlg)
    /\ dlg.role = "Uas"
    /\ dlg.id.call_id = req.call_id
    /\ dlg.id.remote_tag = req.from_tag
    /\ \/ dlg.id.local_tag = NoTag
       \/ (req.to_tag # NoTag /\ req.to_tag = dlg.id.local_tag)

\* Dialog::handle_incoming_invite: the dialog afterwards and the InviteKind
\* of the IncomingInvite event.
HandleIncomingInvite(dlg, req) ==
    IF req.from_tag = NoTag
    THEN [ dialog |-> dlg, kind |-> "Initial" ]
    ELSE IF InDialog(dlg, req)
    THEN [ dialog |-> dlg, kind |-> "Reinvite" ]
    ELSE IF dlg.state \in { "Idle", "Terminated" }
    THEN [ dialog |-> HandleInitialInvite(req), kind |-> "Initial" ]
    ELSE [ dialog |-> dlg, kind |-> "InitialWhileBusy" ]

\* Dialog::handle_incoming_ack: Promotes every matching ACK's dialog.
HandleIncomingAck(dlg, ack) ==
    IF ~HasId(dlg) THEN [ ok |-> FALSE, dialog |-> dlg ]
    ELSE IF dlg.role # "Uas" THEN [ ok |-> FALSE, dialog |-> dlg ]
    ELSE IF ack.call_id # dlg.id.call_id \/ ack.to_tag # dlg.id.local_tag
    THEN [ ok |-> FALSE, dialog |-> dlg ]
    ELSE IF dlg.state = "Ringing"
    THEN [ ok |-> TRUE,
           dialog |-> [ state |-> "Established", role |-> dlg.role, id |-> dlg.id ] ]
    ELSE [ ok |-> TRUE, dialog |-> dlg ]

\* Dialog::terminate_local
TerminateLocal == [ state |-> "Terminated" ]

-----------------------------------------------------------------------------
(* The SIP task: app/src/tasks/sip.rs.  A handler is an operator from the  *)
(* task's state st (dialog, tag counter, call context, transactions, and   *)
(* what the handler has sent so far) to the state it leaves.               *)

RingTimeout == RingTimeoutSecs * 1000

NoCtx == [ some |-> FALSE ]

St ==
    [ dialog |-> dialog, counter |-> next_tag_counter, ctx |-> call_ctx,
      txs |-> transactions, sent |-> << >>, ui |-> << >>, audio |-> << >>,
      rtp |-> << >> ]

\* dialog_state_to_phone_state
DialogStateToPhoneState(dlg) ==
    CASE dlg.state = "Idle" -> "Idle"
      [] dlg.state = "Inviting" -> "Ringing"
      [] dlg.state = "Ringing" -> "Ringing"
      [] dlg.state = "Established" -> "Established"
      [] dlg.state = "Terminated" -> "Idle"

UiDialogStateChanged(phone) == [ cmd |-> "DialogStateChanged", state |-> phone ]

AudioSetDialogState(phone) == [ cmd |-> "SetDialogState", state |-> phone ]

AudioSetMode(mode) == [ cmd |-> "SetMode", mode |-> mode ]

StopStream == [ cmd |-> "StopStream" ]

\* broadcast_phone_state telling the UI only.
BroadcastPhoneStateUiOnly(st) ==
    [st EXCEPT !.ui = Append(@, UiDialogStateChanged(DialogStateToPhoneState(st.dialog)))]

\* SipTask::broadcast_phone_state
BroadcastPhoneState(st) ==
    LET phone == DialogStateToPhoneState(st.dialog)
    IN  [st EXCEPT !.ui = Append(@, UiDialogStateChanged(phone)),
                   !.audio = Append(@, AudioSetDialogState(phone))]

\* SipTask::stop_rtp_streams
StopRtpStreams(st) == [st EXCEPT !.rtp = Append(@, StopStream)]

\* start_rtp_streams_from_ctx without the test for a held stream (port 0).
StartRtpStreamsFromCtxNoHold(st) ==
    IF ~st.ctx.some THEN st
    ELSE IF st.ctx.remote_sdp.connection_address \in LongAddrs THEN st
    ELSE [st EXCEPT !.rtp = Append(@,
             [ cmd |-> "StartStream",
               remote_ip |-> st.ctx.remote_sdp.connection_address,
               remote_port |-> st.ctx.remote_sdp.media.port,
               expected_remote_ssrc |-> "None",
               local_ssrc |-> "None",
               payload_type |-> st.ctx.remote_sdp.media.payload_type ])]

\* SipTask::start_rtp_streams_from_ctx
StartRtpStreamsFromCtx(st) ==
    IF ~st.ctx.some THEN st
    ELSE IF st.ctx.remote_sdp.media.port = 0 THEN StopRtpStreams(st)
    ELSE IF st.ctx.remote_sdp.connection_address \in LongAddrs THEN st
    ELSE [st EXCEPT !.rtp = Append(@,
             [ cmd |-> "StartStream",
               remote_ip |-> st.ctx.remote_sdp.connection_address,
               remote_port |-> st.ctx.remote_sdp.media.port,
               expected_remote_ssrc |-> "None",
               local_ssrc |-> "None",
               payload_type |-> st.ctx.remote_sdp.media.payload_type ])]

\* SipTask::on_dialog_state_changed
OnDialogStateChanged(st, state) ==
    LET b == BroadcastPhoneState(st)
    IN  IF state.state = "Established" THEN StartRtpStreamsFromCtx(b)
        ELSE IF state.state \in { "Terminated", "Idle" }
        THEN [StopRtpStreams(b) EXCEPT !.ctx = NoCtx]
        ELSE b

\* The send_response_* helpers: build the response against the dialog, add
\* the Contact header if any, record it with the transaction layer, send it.
SendResponse(st, req, remote, status, body, contact) ==
    LET b == BuildResponseForRequest(st.dialog, st.counter, req, status, body)
        resp == [b.resp EXCEPT !.contact = contact]
    IN  [st EXCEPT !.dialog = b.dialog,
                   !.counter = b.counter,
                   !.txs = OnOutgoingResponse(st.txs, resp, remote),
                   !.sent = Append(@, Put(resp, remote, "tu"))]

\* SipTask::on_incoming_initial_invite
OnIncomingInitialInvite(st, req, remote) ==
    IF req.body = "" THEN st
    ELSE IF ~SdpParse(req.body).ok
    THEN SendResponse(st, req, remote, 488, NoBody, FALSE)
    ELSE LET ringing == SendResponse(st, req, remote, 180, NoBody, FALSE)
         IN  [ringing EXCEPT
                 !.ctx = [ some |-> TRUE, invite |-> req,
                           remote_sdp |-> SdpParse(req.body),
                           local_sdp |-> BuildLocalSdp,
                           ring_deadline |-> After(RingTimeout),
                           remote_addr |-> remote ],
                 !.ui = Append(@, UiDialogStateChanged("Ringing")),
                 !.audio = Append(@, AudioSetDialogState("Ringing"))]

\* SipTask::on_incoming_reinvite
OnIncomingReinvite(st, req, remote) ==
    IF req.body = "" THEN SendResponse(st, req, remote, 488, NoBody, FALSE)
    ELSE IF ~SdpParse(req.body).ok
    THEN SendResponse(st, req, remote, 488, NoBody, FALSE)
    ELSE IF st.ctx.some
    THEN LET updated == StartRtpStreamsFromCtx(
                            [st EXCEPT !.ctx.remote_sdp = SdpParse(req.body)])
         IN  SendResponse(updated, req, remote, 200, updated.ctx.local_sdp, TRUE)
    ELSE SendResponse(st, req, remote, 481, NoBody, FALSE)

\* SipTask::on_incoming_initial_while_busy
OnIncomingInitialWhileBusy(st, req, remote) ==
    SendResponse(st, req, remote, 486, NoBody, FALSE)

\* SipStack::handle_incoming_invite followed by SipTask::handle_core_event
\* for each event it returns: the stored response re-sent for a tracked
\* key, then the IncomingInvite event by kind.
IncomingInvite(st, req, remote) ==
    LET t  == OnInvite(st.txs, req, remote)
        d  == HandleIncomingInvite(st.dialog, req)
        s1 == [st EXCEPT !.txs = t.txs,
                         !.dialog = d.dialog,
                         !.sent = IF t.resend # NoResponse
                                  THEN Append(@, Put(t.resend, remote, "resend"))
                                  ELSE @]
    IN  CASE d.kind = "Initial" -> OnIncomingInitialInvite(s1, req, remote)
          [] d.kind = "Reinvite" -> OnIncomingReinvite(s1, req, remote)
          [] d.kind = "InitialWhileBusy" -> OnIncomingInitialWhileBusy(s1, req, remote)

\* SipStack::handle_incoming_ack followed by the DialogStateChanged event.
IncomingAck(st, ack) ==
    LET a  == HandleIncomingAck(st.dialog, ack)
        s1 == [st EXCEPT !.txs = OnAck(st.txs, ack), !.dialog = a.dialog]
    IN  IF a.ok THEN OnDialogStateChanged(s1, a.dialog) ELSE s1

\* SipStack::handle_incoming_cancel with Dialog::handle_incoming_cancel: both
\* responses are built while the state is taken out (Idle), recorded, sent,
\* and the DialogStateChanged(Terminated) event follows.  When the 200 cannot
\* be built the `?` returns with the state still taken out and the stack
\* emits nothing.  A CANCEL without a
\* From tag compares the literal "remote", which no dialog here carries.
IncomingCancel(st, req, remote) ==
    IF /\ st.dialog.state = "Ringing"
       /\ st.dialog.role = "Uas"
       /\ req.call_id = st.dialog.id.call_id
       /\ req.from_tag # NoTag
       /\ req.from_tag = st.dialog.id.remote_tag
    THEN IF ~Buildable(req)
         THEN [st EXCEPT !.dialog = [ state |-> "Idle" ]]
         ELSE
         LET taken == [ state |-> "Idle" ]
             ok    == BuildResponseForRequest(taken, st.counter, req, 200, NoBody)
             r487  == BuildResponseForRequest(taken, ok.counter,
                                              st.dialog.original_invite, 487, NoBody)
             s1    == [st EXCEPT
                         !.dialog = TerminateLocal,
                         !.counter = r487.counter,
                         !.txs = OnOutgoingResponse(
                                     OnOutgoingResponse(@, ok.resp, remote),
                                     r487.resp, remote),
                         !.sent = @ \o << Put(ok.resp, remote, "core"),
                                          Put(r487.resp, remote, "core") >>]
         IN  OnDialogStateChanged(s1, s1.dialog)
    ELSE st

\* SipStack::handle_incoming_bye with Dialog::handle_incoming_bye
IncomingBye(st, req, remote) ==
    IF /\ st.dialog.state = "Established"
       /\ st.dialog.role = "Uas"
       /\ req.call_id = st.dialog.id.call_id
       /\ req.from_tag = st.dialog.id.remote_tag
       /\ req.to_tag = st.dialog.id.local_tag
    THEN LET ok == BuildResponseForRequest(TerminateLocal, st.counter, req, 200, NoBody)
             s1 == [st EXCEPT !.dialog = TerminateLocal,
                              !.counter = ok.counter,
                              !.sent = Append(@, Put(ok.resp, remote, "core"))]
         IN  OnDialogStateChanged(s1, s1.dialog)
    ELSE st

\* SipStack::handle_incoming_options
IncomingOptions(st, req, remote) ==
    LET ok == BuildResponseForRequest(st.dialog, st.counter, req, 200, NoBody)
    IN  [st EXCEPT !.dialog = ok.dialog,
                   !.counter = ok.counter,
                   !.sent = Append(@, Put(ok.resp, remote, "core"))]

\* SipStack::on_message for a request, and the events it returns handled.
OnMessage(st, req, remote) ==
    CASE req.method = "INVITE" -> IncomingInvite(st, req, remote)
      [] req.method = "CANCEL" -> IncomingCancel(st, req, remote)
      [] req.method = "ACK" -> IncomingAck(st, req)
      [] req.method = "BYE" -> IncomingBye(st, req, remote)
      [] req.method = "OPTIONS" -> IncomingOptions(st, req, remote)

\* SipTask::handle_answer
HandleAnswer(st) ==
    IF st.dialog.state = "Ringing" /\ st.ctx.some /\ st.dialog.role = "Uas"
    THEN [SendResponse(st, st.ctx.invite, st.ctx.remote_addr, 200,
                       st.ctx.local_sdp, TRUE)
            EXCEPT !.ctx.ring_deadline = NoInstant]
    ELSE st

\* SipTask::handle_hangup
HandleHangup(st) ==
    IF st.ctx.some /\ st.ctx.ring_deadline = NoInstant
    THEN [BroadcastPhoneState([StopRtpStreams(st) EXCEPT !.dialog = TerminateLocal])
            EXCEPT !.ctx = NoCtx]
    ELSE st

\* handle_button_state_changed without the test for a call context.
HandleButtonStateChangedNoCtxTest(st, state) ==
    IF state = "Pressed"
    THEN [st EXCEPT !.audio = Append(@, AudioSetMode("Talk"))]
    ELSE [st EXCEPT !.audio = Append(@, AudioSetMode("Listen"))]

\* SipTask::handle_button_state_changed
HandleButtonStateChanged(st, state) ==
    IF ~st.ctx.some THEN st
    ELSE IF state = "Pressed"
    THEN [st EXCEPT !.audio = Append(@, AudioSetMode("Talk"))]
    ELSE [st EXCEPT !.audio = Append(@, AudioSetMode("Listen"))]

\* SipTask::handle_button_event
HandleButtonEvent(st, event) ==
    CASE event.kind = "ShortPress" -> HandleAnswer(st)
      [] event.kind = "DoubleTap" -> HandleHangup(st)
      [] event.kind = "StateChanged" -> HandleButtonStateChanged(st, event.state)

\* The should_timeout decision of SipTask::check_call_timeouts.
ShouldTimeout(st) ==
    /\ st.dialog.state = "Ringing"
    /\ st.ctx.some
    /\ st.dialog.role = "Uas"
    /\ st.ctx.ring_deadline # NoInstant
    /\ Reached(st.ctx.ring_deadline)

\* check_call_timeouts without the call to terminate_local.
CheckCallTimeoutsNoTerminate(st) ==
    IF ~ShouldTimeout(st) THEN st
    ELSE LET taken   == [st EXCEPT !.ctx = NoCtx]
             replied == SendResponse(taken, st.ctx.invite, st.ctx.remote_addr,
                                     480, NoBody, FALSE)
         IN  BroadcastPhoneState(StopRtpStreams(replied))

\* SipTask::check_call_timeouts
CheckCallTimeouts(st) ==
    IF ~ShouldTimeout(st) THEN st
    ELSE LET taken    == [st EXCEPT !.ctx = NoCtx]
             replied == SendResponse(taken, st.ctx.invite, st.ctx.remote_addr,
                                      480, NoBody, FALSE)
         IN  BroadcastPhoneState(
                 [StopRtpStreams(replied) EXCEPT !.dialog = TerminateLocal])

\* SipTask::process_core_timers: SipStack::poll_timers, each event sent.
ProcessCoreTimers(st) ==
    LET r == Poll(st.txs)
    IN  [st EXCEPT !.txs = r.txs, !.sent = @ \o Retransmissions(r.out)]

-----------------------------------------------------------------------------
(* The Audio task: app/src/tasks/audio.rs, the commands it gets from the    *)
(* SIP task and the engine it selects.  The command channel is the queue    *)
(* audio_q; a run follows it when audio_on is set, and then the button      *)
(* events the SIP task gets are those of one button, whose StateChanged     *)
(* events alternate.                                                        *)

FRAME_DURATION == 20

\* The latest a blocked thread runs again after the instant it waited for.
MaxLate == 45

\* How late the thread runs again: in time, within a period, and more than
\* one and more than two periods late.
Lateness == { 0, 10, 25, MaxLate }

\* Commands a run of the Audio task alone may still be sent.
MaxAudioCmds == 2

\* Option<Instant> of an engine: None, or the instant as its distance in ms
\* from now, negative once it has passed.
NoDeadline == [ some |-> FALSE ]

Deadline(ms) == [ some |-> TRUE, at |-> ms ]

\* AudioDevice: the I2S drivers that exist, TX to the speaker and RX from
\* the microphone (AudioMode::None, Tx, Rx).
NoDriver == [ tx |-> FALSE, rx |-> FALSE ]

\* AudioDevice::stop_current
StopCurrent(device) == NoDriver

\* AudioDevice::start_tx; made tells whether I2sDriver::new_std_tx succeeded.
StartTx(device, made) ==
    IF made THEN [ ok |-> TRUE, device |-> [StopCurrent(device) EXCEPT !.tx = TRUE] ]
    ELSE [ ok |-> FALSE, device |-> StopCurrent(device) ]

\* AudioDevice::ensure_tx_ready
EnsureTxReady(device, made) ==
    IF device.tx /\ ~device.rx THEN [ ok |-> TRUE, device |-> device ]
    ELSE StartTx(device, made)

\* AudioDevice::start_rx
StartRx(device, made) ==
    IF made THEN [ ok |-> TRUE, device |-> [StopCurrent(device) EXCEPT !.rx = TRUE] ]
    ELSE [ ok |-> FALSE, device |-> StopCurrent(device) ]

\* AudioDevice::ensure_rx_ready.  audio.rs calls it; the driver at hand has
\* start_rx only, so it is ensure_tx_ready for the other side.
EnsureRxReady(device, made) ==
    IF device.rx /\ ~device.tx THEN [ ok |-> TRUE, device |-> device ]
    ELSE StartRx(device, made)

\* AudioTask::new.  seen and stopped follow the run for the record: the
\* engine that ran when the task first found its channel disconnected, and
\* whether the task has called stop_current since.
NewAudioTask ==
    [ call_state |-> "Idle", mode |-> "Listen", engine |-> "Off",
      next |-> NoDeadline, device |-> NoDriver, pc |-> "poll",
      seen |-> "None", stopped |-> FALSE ]

\* AudioTask::handle_command (the jitter buffer it resets is left out)
AudioHandleCommand(task, cmd) ==
    IF cmd.cmd = "SetDialogState" THEN [task EXCEPT !.call_state = cmd.state]
    ELSE [task EXCEPT !.mode = cmd.mode]

\* AudioTask::poll_commands: every command waiting in the channel, in order.
RECURSIVE AudioPollCommands(_, _)
AudioPollCommands(task, q) ==
    IF q = << >> THEN task
    ELSE AudioPollCommands(AudioHandleCommand(task, Head(q)), Tail(q))

\* The task finds its command channel disconnected.
Disconnected(task) ==
    IF task.seen = "None" THEN [task EXCEPT !.seen = task.engine, !.stopped = FALSE]
    ELSE task

\* AudioTask::stop_engine
StopEngine(task) ==
    LET stopped == IF task.engine \in { "Listen", "Talk" }
                   THEN [task EXCEPT !.device = StopCurrent(@), !.stopped = TRUE]
                   ELSE task
    IN  [stopped EXCEPT !.engine = "Off", !.next = NoDeadline]

\* AudioTask::start_engine; made tells whether the driver could be created
\* and enabled whether tx_enable succeeded.
StartEngine(task, want, made, enabled) ==
    IF want = "Off" THEN [task EXCEPT !.engine = "Off", !.next = NoDeadline]
    ELSE IF want = "Listen"
    THEN LET r == EnsureTxReady(task.device, made)
         IN  [task EXCEPT !.device = r.device,
                          !.engine = IF r.ok /\ enabled THEN "Listen" ELSE "Off",
                          !.next = NoDeadline]
    ELSE LET r == EnsureRxReady(task.device, made)
         IN  [task EXCEPT !.device = r.device,
                          !.engine = IF r.ok THEN "Talk" ELSE "Off",
                          !.next = NoDeadline]

\* The engine update_engine wants: a function of call state and mode.
Want(call_state, mode) ==
    IF call_state = "Established" /\ mode = "Listen" THEN "Listen"
    ELSE IF call_state = "Established" /\ mode = "Talk" THEN "Talk"
    ELSE "Off"

\* update_engine starting the engine it wants without stop_engine.
UpdateEngineNoStop(task, made, enabled) ==
    LET want == Want(task.call_state, task.mode)
    IN  IF task.engine = want THEN task
        ELSE StartEngine(task, want, made, enabled)

\* AudioTask::update_engine
UpdateEngine(task, made, enabled) ==
    LET want == Want(task.call_state, task.mode)
    IN  IF task.engine = want THEN task
        ELSE StartEngine(StopEngine(task), want, made, enabled)

\* d ms pass for the Audio task.
ElapseAudio(task, d) ==
    IF task.next.some THEN [task EXCEPT !.next = Deadline(task.next.at - d)] ELSE task

\* AudioTask::wait_until_next_deadline_or_command on the channel holding q,
\* open or not: a command that waits is received early ms into the wait and
\* the channel drained after it; with none and the channel disconnected the
\* engine is set Off; otherwise the wait times out, late ms after the
\* deadline.
WaitUntilNextDeadlineOrCommand(task, q, open, early, late) ==
    IF ~task.next.some \/ task.next.at <= 0 THEN [ task |-> task, q |-> q ]
    ELSE IF q # << >>
    THEN [ task |-> AudioPollCommands(
                        AudioHandleCommand(ElapseAudio(task, early), Head(q)), Tail(q)),
           q |-> << >> ]
    ELSE IF ~open
    THEN [ task |-> [Disconnected(task) EXCEPT !.engine = "Off", !.next = NoDeadline],
           q |-> q ]
    ELSE [ task |-> ElapseAudio(task, task.next.at + late), q |-> q ]

\* The tick of an engine is due: its deadline has been reached.
Due(task, kind) == task.engine = kind /\ task.next.some /\ task.next.at <= 0

\* maybe_playout_one_frame and maybe_capture_one_frame as schedulers: the
\* first call sets the deadline one period from now, a call at or after the
\* deadline handles a frame and moves the deadline one period on.
MaybeOneFrame(task, kind) ==
    IF task.engine # kind THEN task
    ELSE IF ~task.next.some THEN [task EXCEPT !.next = Deadline(FRAME_DURATION)]
    ELSE IF task.next.at > 0 THEN task
    ELSE [task EXCEPT !.next = Deadline(task.next.at + FRAME_DURATION)]

\* AudioTask::maybe_playout_one_frame
MaybePlayoutOneFrame(task) == MaybeOneFrame(task, "Listen")

\* AudioTask::maybe_capture_one_frame
MaybeCaptureOneFrame(task) == MaybeOneFrame(task, "Talk")

\* The sending end of the channel in a step of the SIP task: what the step
\* sent is queued, and a StateChanged event handled tells where the button is.
AudioChannel ==
    IF ~audio_on THEN UNCHANGED pttVars
    ELSE /\ audio_q' = audio_q \o audio_tx'
         /\ IF last'.op = "button" /\ last'.input.kind = "StateChanged"
            THEN last'.input.state # button /\ button' = last'.input.state
            ELSE button' = button
         /\ UNCHANGED << audio_on, audio_open, audio_task, audio_last, audio_left >>

\* The step of the Audio task is recorded with the task it found, what the
\* device answered and, when a tick was due at the instant the step looked
\* at its deadline, how far in the past the deadline was by then.
AudioStep(op, input, task, q, due) ==
    /\ audio_task' = task
    /\ audio_q' = q
    /\ audio_last' = [ op |-> op, input |-> input, task |-> audio_task, due |-> due ]
    /\ UNCHANGED << audio_on, audio_open, button, audio_left >>

\* AudioTask::run from the top of the loop to the match on the engine:
\* poll_commands, then either the loop ends and stop_engine runs, or
\* update_engine.  (poll_media feeds the jitter buffer and is left out.)
AudioPoll ==
    /\ UNCHANGED << callVars, otherVars >>
    /\ audio_on
    /\ audio_task.pc = "poll"
    /\ LET polled == AudioPollCommands(audio_task, audio_q)
       IN  IF ~audio_open
           THEN AudioStep("exit", "none",
                          [StopEngine(Disconnected(polled)) EXCEPT !.pc = "exited"],
                          << >>, NoDeadline)
           ELSE \E made, enabled \in BOOLEAN :
                   AudioStep("update", [ made |-> made, enabled |-> enabled ],
                             [UpdateEngine(polled, made, enabled) EXCEPT !.pc = "wait"],
                             << >>, NoDeadline)

\* AudioTask::run, the match on the engine.  Off: recv_timeout for a command.
\* Listen and Talk: the wait for the deadline or a command, then the frame.
AudioWait ==
    /\ UNCHANGED << callVars, otherVars >>
    /\ audio_on
    /\ audio_task.pc = "wait"
    /\ IF audio_task.engine = "Off"
       THEN IF audio_q # << >>
            THEN AudioStep("recv", Head(audio_q),
                           [AudioHandleCommand(audio_task, Head(audio_q))
                                        EXCEPT !.pc = "poll"],
                           Tail(audio_q), NoDeadline)
            ELSE IF ~audio_open
            THEN AudioStep("exit", "none",
                           [StopEngine(Disconnected(audio_task))
                                        EXCEPT !.pc = "exited"],
                           audio_q, NoDeadline)
            ELSE AudioStep("idle", "none", [audio_task EXCEPT !.pc = "poll"], audio_q,
                           NoDeadline)
       ELSE \E early \in { 0, 5 }, late \in Lateness :
               LET kind == audio_task.engine
                   w == WaitUntilNextDeadlineOrCommand(audio_task, audio_q, audio_open,
                                                       early, late)
               IN  AudioStep("frame", kind, [MaybeOneFrame(w.task, kind) EXCEPT !.pc = "poll"],
                             w.q,
                             IF Due(w.task, kind) THEN w.task.next ELSE NoDeadline)

\* A task holding the sending end sends a command.
AudioSend ==
    /\ UNCHANGED << callVars, otherVars >>
    /\ audio_on
    /\ audio_open
    /\ audio_left > 0
    /\ audio_left' = audio_left - 1
    /\ \E cmd \in { [ cmd |-> "SetDialogState", state |-> s ] :
                        s \in { "Idle", "Ringing", "Established" } }
                    \cup { [ cmd |-> "SetMode", mode |-> m ] : m \in { "Listen", "Talk" } } :
          audio_q' = Append(audio_q, cmd)
    /\ UNCHANGED << audio_on, audio_open, audio_task, audio_last, button >>

\* The sending ends of the channel are dropped: the senders' tasks end.
AudioClose ==
    /\ UNCHANGED << callVars, otherVars >>
    /\ audio_on
    /\ audio_open
    /\ audio_open' = FALSE
    /\ UNCHANGED << audio_on, audio_q, audio_task, audio_last, audio_left, button >>

InitAudio(on) ==
    /\ audio_on = on
    /\ audio_open = TRUE
    /\ audio_q = << >>
    /\ audio_task = NewAudioTask
    /\ audio_last = [ op |-> "new" ]
    /\ audio_left = MaxAudioCmds
    /\ button = "Released"

-----------------------------------------------------------------------------
(* The transaction manager driven directly, as its unit tests drive it:    *)
(* one INVITE (Call-ID c1, CSeq 1), responses recorded for it, ACKs, and   *)
(* the clock advanced with the timers polled at every step.                *)

TxQuantum == 250

TxStatuses == { 180, 200, 486 }

TxRequest(method) ==
    [ method |-> method, call_id |-> "c1", cseq |-> 1, from_tag |-> 100,
      to_tag |-> NoTag, body |-> NoBody ]

SinceCap == TIMER_H + T2

TxInvite ==
    /\ UNCHANGED << otherVars, pttVars >>
    /\ LET r == OnInvite(transactions, TxRequest("INVITE"), "peerA")
       IN  /\ transactions' = r.txs
           /\ sent' = IF r.resend # NoResponse
                      THEN << Put(r.resend, "peerA", "resend") >> ELSE << >>
    /\ UNCHANGED << sipVars, last, acked, txHistory >>

TxRespond ==
    /\ UNCHANGED << otherVars, pttVars >>
    /\ \E status \in TxStatuses, method \in { "INVITE", "CANCEL" } :
         LET resp == Response(status, TxRequest(method), 0, NoBody, FALSE)
             final == method = "INVITE" /\ status >= 200
         IN  /\ transactions' = OnOutgoingResponse(transactions, resp, "peerA")
             /\ since_final' = IF final THEN 0 ELSE since_final
             /\ ack_since' = IF final THEN FALSE ELSE ack_since
             /\ retransmits' = IF final THEN 0 ELSE retransmits
    /\ sent' = << >>
    /\ UNCHANGED << sipVars, last, acked >>

\* The keys an ACK reaches before Timer H: a tracked transaction that has
\* recorded a final response and whose Timer H has not fired.
AckedBeforeH(txs, ack) ==
    LET i == FindTx(txs, ack.call_id, ack.cseq)
    IN  IF i # 0 /\ txs[i].deadline_h # NoInstant /\ ~Reached(txs[i].deadline_h)
        THEN { Key(ack) } ELSE { }

TxAck ==
    /\ UNCHANGED << otherVars, pttVars >>
    /\ transactions' = OnAck(transactions, TxRequest("ACK"))
    /\ acked' = acked \cup AckedBeforeH(transactions, TxRequest("ACK"))
    /\ ack_since' = (ack_since \/ since_final # NoInstant)
    /\ sent' = << >>
    /\ UNCHANGED << sipVars, last, since_final, retransmits >>

TxStep(txs) ==
    IF TxPending(txs) = { } THEN TxQuantum ELSE Min(TxQuantum, SetMin(TxPending(txs)))

\* One loop iteration: d ms pass, then the timers are polled.
TxTick ==
    /\ UNCHANGED << otherVars, pttVars >>
    /\ \E d \in { 0, TxStep(transactions) } :
         LET r == Poll(ElapseTxs(transactions, d))
         IN  /\ transactions' = r.txs
             /\ sent' = Retransmissions(r.out)
             /\ acked' = acked \cap TxKeys(r.txs)
             /\ retransmits' = retransmits + Len(r.out)
             /\ since_final' = IF since_final = NoInstant THEN NoInstant
                               ELSE Min(since_final + d, SinceCap)
    /\ UNCHANGED << sipVars, last, ack_since >>

TxNext == TxInvite \/ TxRespond \/ TxAck \/ TxTick

-----------------------------------------------------------------------------
(* The task loop of SipTask::run: socket, commands, ring timeout, timers,  *)
(* sleep.  The peer's requests and the button's events are drawn from the  *)
(* sets below.                                                             *)

Request(method, call_id, cseq, from_tag, to_tag, body) ==
    [ method |-> method, call_id |-> call_id, cseq |-> cseq,
      from_tag |-> from_tag, to_tag |-> to_tag, body |-> body ]

\* Tags the peer may put in a To header: the first tags the dialog hands out.
EchoedTags == { 0, 1 }

Invites ==
    { Request("INVITE", "c1", 1, 100, NoTag, b) : b \in Bodies \ { "sdpB" } }
      \cup { Request("INVITE", "c1", 1, NoTag, NoTag, "sdpA"),
             Request("INVITE", "c2", 1, 101, NoTag, "sdpB") }
      \cup { Request("INVITE", "c1", 2, 100, 0, b) : b \in { "sdpB", "sdpHold" } }
      \cup { Request("INVITE", "c1", 2, 100, 1, "sdpB") }

Acks ==
    { Request("ACK", "c1", 1, 100, t, "") : t \in { NoTag } \cup EchoedTags }

Cancels ==
    { Request("CANCEL", "c1", 1, f, NoTag, "") : f \in { 100, 101 } }

Byes ==
    { Request("BYE", "c1", 2, 100, t, "") : t \in { NoTag, 0 } }

Options ==
    { Request("OPTIONS", "c1", 1, 100, NoTag, "") }

ButtonEvents ==
    { [ kind |-> "ShortPress" ], [ kind |-> "DoubleTap" ],
      [ kind |-> "StateChanged", state |-> "Pressed" ],
      [ kind |-> "StateChanged", state |-> "Released" ] }

\* The record of a step: the handler run, its input, and the dialog and the
\* call context it found.
Step(op, input) ==
    [ op |-> op, input |-> input, dialog |-> dialog, ctx |-> call_ctx,
      answered |-> answered ]

\* The INVITEs a step of handle_answer answers 200.
Answers(out) ==
    { Key(out[i].response) : i \in { j \in 1..Len(out) :
          /\ out[j].via = "tu"
          /\ out[j].response.status_code = 200
          /\ out[j].response.cseq_method = "INVITE" } }

\* The task's state after a handler, and what the handler put on the wire
\* and on the channels during this step.
Commit(st, newly_answered) ==
    /\ dialog' = st.dialog
    /\ next_tag_counter' = st.counter
    /\ call_ctx' = st.ctx
    /\ transactions' = st.txs
    /\ sent' = st.sent
    /\ ui_tx' = st.ui
    /\ audio_tx' = st.audio
    /\ rtp_tx' = st.rtp
    /\ answered' = IF HasId(st.dialog) THEN answered \cup newly_answered ELSE { }

\* SipTask::poll_sip_socket, one datagram.
Receive(req) ==
    /\ UNCHANGED otherVars
    /\ pc = "socket"
    /\ msgs_left > 0
    /\ \E remote \in Addrs : Commit(OnMessage(St, req, remote), { })
    /\ msgs_left' = msgs_left - 1
    /\ last' = Step("recv", req)
    /\ acked' = IF req.method = "ACK"
                THEN acked \cup AckedBeforeH(transactions, req) ELSE acked
    /\ UNCHANGED << pc, cmds_left, sleeps_left, txHistory >>
    /\ AudioChannel

RecvInvite == \E req \in Invites : Receive(req)

RecvAck == \E req \in Acks : Receive(req)

RecvCancel == \E req \in Cancels : Receive(req)

\* A CANCEL of the ringing call that lacks its CSeq header.
BadCancels ==
    { Request("CANCEL", "c1", NoCSeq, 100, NoTag, "") }

RecvBadCancel == \E req \in BadCancels : Receive(req)

RecvBye == \E req \in Byes : Receive(req)

RecvOptions == \E req \in Options : Receive(req)

\* recv_from returns WouldBlock.
SocketEmpty ==
    /\ UNCHANGED otherVars
    /\ pc = "socket"
    /\ pc' = "commands"
    /\ Commit(St, { })
    /\ last' = Step("socket empty", "none")
    /\ UNCHANGED << msgs_left, cmds_left, sleeps_left, acked, txHistory >>
    /\ AudioChannel

\* SipTask::poll_commands, one command.
Button ==
    /\ UNCHANGED otherVars
    /\ pc = "commands"
    /\ cmds_left > 0
    /\ \E event \in ButtonEvents :
         /\ LET st == HandleButtonEvent(St, event)
            IN  Commit(st, IF event.kind = "ShortPress" THEN Answers(st.sent) ELSE { })
         /\ last' = Step("button", event)
    /\ cmds_left' = cmds_left - 1
    /\ UNCHANGED << pc, msgs_left, sleeps_left, acked, txHistory >>
    /\ AudioChannel

\* try_recv returns Empty.
CommandsEmpty ==
    /\ UNCHANGED otherVars
    /\ pc = "commands"
    /\ pc' = "timeouts"
    /\ Commit(St, { })
    /\ last' = Step("commands empty", "none")
    /\ UNCHANGED << msgs_left, cmds_left, sleeps_left, acked, txHistory >>
    /\ AudioChannel

RingTimeouts ==
    /\ UNCHANGED otherVars
    /\ pc = "timeouts"
    /\ pc' = "timers"
    /\ Commit(CheckCallTimeouts(St), { })
    /\ last' = Step("timeouts", "none")
    /\ UNCHANGED << msgs_left, cmds_left, sleeps_left, acked, txHistory >>
    /\ AudioChannel

CoreTimers ==
    /\ UNCHANGED otherVars
    /\ pc = "timers"
    /\ pc' = "sleep"
    /\ Commit(ProcessCoreTimers(St), { })
    /\ acked' = acked \cap TxKeys(transactions')
    /\ last' = Step("timers", "none")
    /\ UNCHANGED << msgs_left, cmds_left, sleeps_left, txHistory >>
    /\ AudioChannel

\* The instants the task is waiting for.
Pending ==
    TxPending(transactions)
      \cup (IF call_ctx.some /\ call_ctx.ring_deadline > 0
            THEN { call_ctx.ring_deadline } ELSE { })

\* thread::sleep and the next Instant::now(): no time to speak of passes, or
\* the time to the nearest instant the task is waiting for.
Sleep ==
    /\ UNCHANGED otherVars
    /\ pc = "sleep"
    /\ pc' = "socket"
    /\ \E d \in { 0 } \cup (IF Pending = { } \/ sleeps_left = 0
                           THEN { } ELSE { SetMin(Pending) }) :
         /\ sleeps_left' = IF d > 0 THEN sleeps_left - 1 ELSE sleeps_left
         /\ transactions' = ElapseTxs(transactions, d)
         /\ call_ctx' = IF call_ctx.some
                        THEN [call_ctx EXCEPT !.ring_deadline = Elapse(@, d)]
                        ELSE call_ctx
         /\ last' = Step("sleep", d)
    /\ sent' = << >>
    /\ ui_tx' = << >>
    /\ audio_tx' = << >>
    /\ rtp_tx' = << >>
    /\ UNCHANGED << dialog, next_tag_counter, msgs_left, cmds_left, answered, acked,
                    txHistory >>
    /\ AudioChannel

Next ==
    \/ RecvInvite
    \/ RecvAck
    \/ RecvCancel
    \/ RecvBye
    \/ RecvOptions
    \/ SocketEmpty
    \/ Button
    \/ CommandsEmpty
    \/ RingTimeouts
    \/ CoreTimers
    \/ Sleep

\* SipTask::new, with the datagrams, button events and waits a run may take.
InitCallWith(msgs, cmds, sleeps) ==
    /\ pc = "socket"
    /\ dialog = [ state |-> "Idle" ]
    /\ next_tag_counter = 0
    /\ call_ctx = [ some |-> FALSE ]
    /\ transactions = << >>
    /\ sent = << >>
    /\ ui_tx = << >>
    /\ audio_tx = << >>
    /\ rtp_tx = << >>
    /\ last = [ op |-> "new" ]
    /\ msgs_left = msgs
    /\ cmds_left = cmds
    /\ sleeps_left = sleeps
    /\ answered = { }
    /\ acked = { }
    /\ since_final = NoInstant
    /\ ack_since = FALSE
    /\ retransmits = 0

InitCall == InitCallWith(MaxMsgs, MaxCmds, MaxSleeps)

-----------------------------------------------------------------------------
(* Registration: sip_core/src/registration.rs, sip_core/src/auth.rs and    *)
(* the registration part of the SIP task (maybe_send_register,             *)
(* handle_registration_result).  Registration and call handling share no   *)
(* state, so the loop is modelled here with REGISTER responses only.       *)

MaxRegMsgs == 2
MaxRegLoops == 4

REGISTER_TIMEOUT == 5000
InitialExpires == 30
DefaultExpires == 3600
LoopSleepMs == 10

FailureRetry == 30 * 1000

Max(a, b) == IF a > b THEN a ELSE b

\* Settings: the account the phone registers.
Settings ==
    [ sip_username |-> "u", sip_password |-> "p", sip_registrar |-> "sip:registrar" ]

\* A header that is not there, and a parameter that is not there.
NoHeader == [ absent |-> TRUE ]

NoParam == "none"

\* The value of an authenticate header: its scheme and its parameters.
AuthHeader(scheme, realm, nonce, algorithm) ==
    [ scheme |-> scheme, realm |-> realm, nonce |-> nonce, algorithm |-> algorithm ]

\* parse_www_authenticate: the scheme must be Digest, realm and nonce must
\* be given, the algorithm defaults to MD5.
ParseWwwAuthenticate(v) ==
    IF v.scheme # "Digest" THEN [ ok |-> FALSE ]
    ELSE IF v.realm = NoParam \/ v.nonce = NoParam THEN [ ok |-> FALSE ]
    ELSE [ ok |-> TRUE,
           challenge |-> [ realm |-> v.realm, nonce |-> v.nonce,
                           algorithm |-> IF v.algorithm = NoParam
                                         THEN "MD5" ELSE v.algorithm ] ]

\* compute_digest_response: MD5(HA1:nonce:HA2), with md5_hex as the function
\* it is: equal inputs, equal digests.
ComputeDigestResponse(challenge, creds, method, uri) ==
    [ md5 |-> << [ md5 |-> << creds.username, challenge.realm, creds.password >> ],
                 challenge.nonce,
                 [ md5 |-> << method, uri >> ] >> ]

\* authorization_header
AuthorizationHeader(challenge, creds, method, uri) ==
    [ username |-> creds.username, realm |-> challenge.realm,
      nonce |-> challenge.nonce, uri |-> uri,
      response |-> ComputeDigestResponse(challenge, creds, method, uri),
      algorithm |-> challenge.algorithm ]

NoChallenge == [ some |-> FALSE ]

\* RegistrationTransaction::default
NewRegistration ==
    [ state |-> "Unregistered", cseq |-> 0, call_id |-> "reg-1",
      from_tag |-> "from-1", to_tag |-> "to-1", branch_counter |-> 1,
      last_expires |-> DefaultExpires, last_challenge |-> NoChallenge ]

\* RegistrationTransaction::build_register with next_branch inlined.  Both
\* counters are u32 and wrap after 2^32 requests; a run sends at most
\* MaxRegLoops + 1 of them.
BuildRegister(reg, expires, auth_header) ==
    IF reg.state = "Registering" THEN [ ok |-> FALSE, reg |-> reg ]
    ELSE LET cseq == reg.cseq + 1
         IN  [ ok |-> TRUE,
               reg |-> [reg EXCEPT !.cseq = cseq, !.state = "Registering",
                                   !.branch_counter = @ + 1],
               req |-> [ method |-> "REGISTER", branch |-> reg.branch_counter,
                         from_tag |-> reg.from_tag, to_tag |-> reg.to_tag,
                         call_id |-> reg.call_id, cseq |-> cseq,
                         expires |-> expires, authorization |-> auth_header ] ]

\* The Expires header of a response: absent, not a number, or a number.
ParseExpires(h, default) == IF h.kind = "number" THEN h.value ELSE default

\* handle_response with the other status codes taken for 401: the
\* registration is left Unregistered.
HandleResponseStaysUnregistered(reg, resp) ==
    IF resp.status_code = 200
    THEN LET expires == ParseExpires(resp.expires, reg.last_expires)
         IN  [ reg |-> [reg EXCEPT !.state = "Registered", !.last_expires = expires],
               result |-> [ kind |-> "Registered", expires |-> expires ] ]
    ELSE IF resp.status_code \in { 401, 407 }
    THEN LET parsed == IF resp.www_authenticate = NoHeader THEN [ ok |-> FALSE ]
                       ELSE ParseWwwAuthenticate(resp.www_authenticate)
         IN  [ reg |-> [reg EXCEPT
                          !.last_challenge =
                              IF parsed.ok
                              THEN [ some |-> TRUE, challenge |-> parsed.challenge ]
                              ELSE @,
                          !.state = "Unregistered"],
               result |-> [ kind |-> "AuthRequired" ] ]
    ELSE [ reg |-> [reg EXCEPT !.state = "Unregistered"],
           result |-> [ kind |-> "Failed", code |-> resp.status_code ] ]

\* RegistrationTransaction::handle_response
HandleResponse(reg, resp) ==
    IF resp.status_code = 200
    THEN LET expires == ParseExpires(resp.expires, reg.last_expires)
         IN  [ reg |-> [reg EXCEPT !.state = "Registered", !.last_expires = expires],
               result |-> [ kind |-> "Registered", expires |-> expires ] ]
    ELSE IF resp.status_code \in { 401, 407 }
    THEN LET parsed == IF resp.www_authenticate = NoHeader THEN [ ok |-> FALSE ]
                       ELSE ParseWwwAuthenticate(resp.www_authenticate)
         IN  [ reg |-> [reg EXCEPT
                          !.last_challenge =
                              IF parsed.ok
                              THEN [ some |-> TRUE, challenge |-> parsed.challenge ]
                              ELSE @,
                          !.state = "Unregistered"],
               result |-> [ kind |-> "AuthRequired" ] ]
    ELSE [ reg |-> [reg EXCEPT !.state = "Error"],
           result |-> [ kind |-> "Failed", code |-> resp.status_code ] ]

\* next_refresh_interval_secs returning the whole of Expires.
NextRefreshIntervalSecsWhole(reg) == Max(reg.last_expires, 5)

\* RegistrationTransaction::next_refresh_interval_secs
NextRefreshIntervalSecs(reg) == (Max(reg.last_expires, 5) * 8) \div 10

\* RegistrationTransaction::reset_to_unregistered.  sip.rs calls it; the
\* registration.rs at hand does not define it, so it is what its caller and
\* the specification say: the registration resets to Unregistered.
ResetToUnregistered(reg) == [reg EXCEPT !.state = "Unregistered"]

\* What the registration handlers of the SIP task work on.
RegSt ==
    [ reg |-> registration, next_register |-> next_register,
      last_reg_state |-> last_reg_state, sent |-> << >>, ui |-> << >> ]

\* SipTask::handle_registration_result with the mutant refresh interval.
HandleRegistrationResultWhole(st, result) ==
    IF result.kind = "Registered"
    THEN [st EXCEPT !.next_register =
                        After(Max(NextRefreshIntervalSecsWhole(st.reg), 5) * 1000)]
    ELSE IF result.kind = "AuthRequired"
    THEN [st EXCEPT !.next_register = After(0)]
    ELSE IF result.kind = "Failed"
    THEN [st EXCEPT !.next_register = After(FailureRetry)]
    ELSE st

\* SipTask::handle_registration_result
HandleRegistrationResult(st, result) ==
    IF result.kind = "Registered"
    THEN [st EXCEPT !.next_register =
                        After(Max(NextRefreshIntervalSecs(st.reg), 5) * 1000)]
    ELSE IF result.kind = "AuthRequired"
    THEN [st EXCEPT !.next_register = After(0)]
    ELSE IF result.kind = "Failed"
    THEN [st EXCEPT !.next_register = After(FailureRetry)]
    ELSE st

\* SipTask::handle_reg_event, the StateChanged arm.
RegStateChanged(st, state) ==
    IF state # st.last_reg_state
    THEN [st EXCEPT !.last_reg_state = state,
                    !.ui = Append(@, [ cmd |-> "RegistrationStateChanged",
                                       registered |-> state = "Registered" ])]
    ELSE st

\* SipTask::build_auth_header over the stored challenge, if there is one.
BuildAuthHeader(reg) ==
    IF reg.last_challenge.some
    THEN AuthorizationHeader(reg.last_challenge.challenge,
                             [ username |-> Settings.sip_username,
                               password |-> Settings.sip_password ],
                             "REGISTER", Settings.sip_registrar)
    ELSE NoHeader

\* maybe_send_register without the reset of a timed-out attempt.
MaybeSendRegisterNoReset(st) ==
    IF ~Reached(st.next_register) \/ st.reg.state = "Registering" THEN st
    ELSE LET expires == IF st.reg.state = "Registered"
                        THEN st.reg.last_expires ELSE InitialExpires
             built == BuildRegister(st.reg, expires, BuildAuthHeader(st.reg))
         IN  IF ~built.ok
             THEN [st EXCEPT !.next_register = After(FailureRetry)]
             ELSE [st EXCEPT !.reg = built.reg,
                             !.sent = Append(@, built.req),
                             !.next_register = After(REGISTER_TIMEOUT)]

\* SipTask::maybe_send_register
MaybeSendRegister(st) ==
    LET timed_out == st.reg.state = "Registering" /\ Reached(st.next_register)
        s1 == IF timed_out
              THEN RegStateChanged([st EXCEPT !.reg = ResetToUnregistered(@)],
                                   "Unregistered")
              ELSE st
    IN  IF ~Reached(s1.next_register) \/ s1.reg.state = "Registering" THEN s1
        ELSE LET expires == IF s1.reg.state = "Registered"
                            THEN s1.reg.last_expires ELSE InitialExpires
                 built == BuildRegister(s1.reg, expires, BuildAuthHeader(s1.reg))
             IN  IF ~built.ok
                 THEN [s1 EXCEPT !.next_register = After(FailureRetry)]
                 ELSE [s1 EXCEPT !.reg = built.reg,
                                 !.sent = Append(@, built.req),
                                 !.next_register = After(REGISTER_TIMEOUT)]

\* is_register_response
IsRegisterResponse(resp) == resp.cseq_method = "REGISTER"

\* SipStack::on_message for a response, and SipTask::handle_core_event for
\* the two registration events it yields.
OnResponse(st, resp) ==
    IF IsRegisterResponse(resp)
    THEN LET handled == HandleResponse(st.reg, resp)
             s1 == HandleRegistrationResult([st EXCEPT !.reg = handled.reg],
                                            handled.result)
         IN  RegStateChanged(s1, handled.reg.state)
    ELSE st

GoodChallenge == AuthHeader("Digest", "realm", "nonce1", NoParam)

RegResponse(code, method, expires, www, proxy) ==
    [ status_code |-> code, cseq_method |-> method, expires |-> expires,
      www_authenticate |-> www, proxy_authenticate |-> proxy ]

\* The responses a registrar may send: 200 with and without a usable Expires,
\* 401 and 407 with and without a usable challenge, other statuses, and a
\* response to another method.
Responses ==
    { RegResponse(200, "REGISTER", e, NoHeader, NoHeader) :
          e \in { [ kind |-> "absent" ], [ kind |-> "text" ] }
                   \cup { [ kind |-> "number", value |-> n] : n \in { 0, 6, 7, 60 } } }
        \cup { RegResponse(401, "REGISTER", [ kind |-> "absent" ], w, NoHeader) :
                   w \in { NoHeader, GoodChallenge,
                           AuthHeader("Digest", "realm", "nonce2", "MD5"),
                           AuthHeader("Basic", "realm", NoParam, NoParam),
                           AuthHeader("Digest", "realm", NoParam, NoParam) } }
        \cup { RegResponse(407, "REGISTER", [ kind |-> "absent" ], NoHeader, GoodChallenge),
               RegResponse(407, "REGISTER", [ kind |-> "absent" ], GoodChallenge, NoHeader) }
        \cup { RegResponse(c, "REGISTER", [ kind |-> "absent" ], NoHeader, NoHeader) :
                   c \in { 100, 403, 503 } }
        \cup { RegResponse(200, "INVITE", [ kind |-> "absent" ], NoHeader, NoHeader) }

\* The handlers' result becomes the state; the step is recorded with the
\* state it found and the REGISTER that was the latest before it.
RegCommit(st, op, input) ==
    /\ registration' = st.reg
    /\ next_register' = st.next_register
    /\ last_reg_state' = st.last_reg_state
    /\ reg_sent' = st.sent
    /\ reg_ui' = st.ui
    /\ reg_last' = [ op |-> op, input |-> input,
                     registration |-> registration,
                     next_register |-> next_register,
                     since_auth |-> since_auth,
                     prev |-> IF reg_sent # << >> THEN reg_sent[Len(reg_sent)]
                              ELSE reg_last.prev ]

\* The loop reaches maybe_send_register.
RegMaybeSend ==
    /\ UNCHANGED << callVars, jitVars, codec, rtpVars, uiVars, audioVars >>
    /\ pc_reg = "register"
    /\ pc_reg' = "socket"
    /\ RegCommit(MaybeSendRegister(RegSt), "register", NoHeader)
    /\ since_auth' = IF MaybeSendRegister(RegSt).sent # << >> THEN NoInstant
                     ELSE since_auth
    /\ UNCHANGED reg_left

\* poll_sip_socket reads one response.
RegReceive ==
    /\ UNCHANGED << callVars, jitVars, codec, rtpVars, uiVars, audioVars >>
    /\ pc_reg = "socket"
    /\ reg_left.msgs > 0
    /\ \E resp \in Responses :
        /\ RegCommit(OnResponse(RegSt, resp), "response", resp)
        /\ since_auth' = IF IsRegisterResponse(resp) /\ resp.status_code \in { 401, 407 }
                         THEN 0 ELSE since_auth
    /\ reg_left' = [reg_left EXCEPT !.msgs = @ - 1]
    /\ UNCHANGED pc_reg

\* poll_sip_socket finds the socket empty.
RegSocketEmpty ==
    /\ UNCHANGED << callVars, jitVars, codec, rtpVars, uiVars, audioVars >>
    /\ pc_reg = "socket"
    /\ pc_reg' = "sleep"
    /\ RegCommit(RegSt, "empty", NoHeader)
    /\ UNCHANGED << reg_left, since_auth >>

\* The loop sleeps; while nothing arrives and no timer is due its turns
\* change nothing, so several of them pass as one step.
RegSleep ==
    /\ UNCHANGED << callVars, jitVars, codec, rtpVars, uiVars, audioVars >>
    /\ pc_reg = "sleep"
    /\ pc_reg' = "register"
    /\ reg_left.loops > 0
    /\ reg_left' = [reg_left EXCEPT !.loops = @ - 1]
    /\ \E d \in IF next_register > 0
                THEN { Min(LoopSleepMs, next_register), Min(1000, next_register),
                       next_register }
                ELSE { LoopSleepMs, 1000 } :
        /\ RegCommit([RegSt EXCEPT !.next_register = Elapse(@, d)], "sleep", d)
        /\ since_auth' = IF since_auth = NoInstant THEN NoInstant
                         ELSE Min(since_auth + d, FailureRetry)

InitReg ==
    /\ pc_reg = "register"
    /\ registration = NewRegistration
    /\ next_register = After(0)
    /\ last_reg_state = "Unregistered"
    /\ reg_sent = << >>
    /\ reg_ui = << >>
    /\ reg_last = [ op |-> "new", prev |-> NoHeader ]
    /\ reg_left = [ msgs |-> MaxRegMsgs, loops |-> MaxRegLoops ]
    /\ since_auth = NoInstant

-----------------------------------------------------------------------------
(* The jitter buffer: rtp_audio/src/jitter.rs, JitterBuffer<CAP, FRAME>.   *)

CAP == 3
FRAME == 2
MaxJbOps == 6
MaxPops == 5

\* Sequence numbers are u16; samples are i16.
SeqNums == { 0, 1, 2, 4, 65535 }

NoSeq == -1

\* silence_frame
SilenceFrame == [i \in 1..FRAME |-> 0]

\* The samples pushed with a sequence number in the runs below, one frame long.
Payload(seq) == [i \in 1..FRAME |-> (seq % 1000) + i]

\* JitterBuffer::new
NewJitterBuffer == [ next_seq |-> NoSeq, frames |-> << >> ]

\* heapless::Vec::remove
RemoveAt(v, pos) == [i \in 1..(Len(v) - 1) |-> IF i < pos THEN v[i] ELSE v[i + 1]]

\* push_frame that never makes room: pushing to the full Vec fails.
PushFrameNoEvict(b, seq, samples, at) ==
    IF \E i \in 1..Len(b.frames) : b.frames[i].seq = seq THEN b
    ELSE IF Len(b.frames) = CAP THEN b
    ELSE [b EXCEPT !.frames = Append(@,
             [ seq |-> seq, at |-> at,
               samples |-> [i \in 1..FRAME |->
                               IF i <= Len(samples) THEN samples[i] ELSE 0] ])]

\* JitterBuffer::push_frame.  The frame keeps the time it was inserted at,
\* which the code does not store.
PushFrame(b, seq, samples, at) ==
    LET room == IF Len(b.frames) = CAP THEN RemoveAt(b.frames, 1) ELSE b.frames
    IN  IF \E i \in 1..Len(room) : room[i].seq = seq
        THEN [b EXCEPT !.frames = room]
        ELSE [b EXCEPT !.frames = Append(room,
                 [ seq |-> seq, at |-> at,
                   samples |-> [i \in 1..FRAME |->
                                   IF i <= Len(samples) THEN samples[i] ELSE 0] ])]

\* Iterator::position / min_by_key: the first frame with that number, and
\* the first frame with the least number.
Position(frames, seq) ==
    IF \E i \in 1..Len(frames) : frames[i].seq = seq
    THEN SetMin({ i \in 1..Len(frames) : frames[i].seq = seq })
    ELSE 0

MinSeq(frames) == SetMin({ frames[i].seq : i \in 1..Len(frames) })

\* pop_frame handing out the frames as they came.
PopFrameFifo(b) ==
    IF b.frames = << >>
    THEN [ jb |-> b, samples |-> SilenceFrame, real |-> FALSE ]
    ELSE [ jb |-> [b EXCEPT !.frames = Tail(@)],
           samples |-> b.frames[1].samples, real |-> TRUE ]

\* pop_frame without the skip ahead on a full buffer.
PopFrameNoSkip(b) ==
    LET expected == IF b.next_seq = NoSeq /\ b.frames # << >>
                    THEN MinSeq(b.frames) ELSE b.next_seq
        pos == Position(b.frames, expected)
    IN  IF expected = NoSeq
        THEN [ jb |-> b, samples |-> SilenceFrame, real |-> FALSE ]
        ELSE IF pos # 0
        THEN [ jb |-> [ next_seq |-> (expected + 1) % 65536,
                        frames |-> RemoveAt(b.frames, pos) ],
               samples |-> b.frames[pos].samples, real |-> TRUE ]
        ELSE [ jb |-> [b EXCEPT !.next_seq = (expected + 1) % 65536],
               samples |-> SilenceFrame, real |-> FALSE ]

\* JitterBuffer::pop_frame
PopFrame(b) ==
    LET expected == IF b.next_seq = NoSeq /\ b.frames # << >>
                    THEN MinSeq(b.frames) ELSE b.next_seq
        pos == Position(b.frames, expected)
    IN  IF expected = NoSeq
        THEN [ jb |-> b, samples |-> SilenceFrame, real |-> FALSE ]
        ELSE IF pos # 0
        THEN [ jb |-> [ next_seq |-> (expected + 1) % 65536,
                        frames |-> RemoveAt(b.frames, pos) ],
               samples |-> b.frames[pos].samples, real |-> TRUE ]
        ELSE IF Len(b.frames) = CAP
        THEN LET least == Position(b.frames, MinSeq(b.frames))
             IN  [ jb |-> [ next_seq |-> (b.frames[least].seq + 1) % 65536,
                            frames |-> RemoveAt(b.frames, least) ],
                   samples |-> b.frames[least].samples, real |-> TRUE ]
        ELSE [ jb |-> [b EXCEPT !.next_seq = (expected + 1) % 65536],
               samples |-> SilenceFrame, real |-> FALSE ]

\* JitterBuffer::reset
ResetJitterBuffer(b) == NewJitterBuffer

\* The sequence number of the real frame a pop returned: pop_frame leaves
\* next_seq one past it.
ReturnedSeq(after) == (after.next_seq + 65535) % 65536

\* The sequence number of the real frame returned last since the buffer was
\* new or reset, after a call.
Played(op, after, out, before) ==
    IF op = "reset" THEN NoSeq
    ELSE IF op = "pop" /\ out.real THEN ReturnedSeq(after)
    ELSE before

\* A call on the buffer leaves its record: the buffer it found, what it
\* returned, and the real frame returned last before and after it.
JbRecord(op, seq, samples, after, out) ==
    [ op |-> op, seq |-> seq, samples |-> samples, jb |-> jb, out |-> out,
      played_before |-> jb_last.played,
      played |-> Played(op, after, out, jb_last.played) ]

\* One call on the buffer, recorded with the buffer it found.
JbCall(op, seq, samples, after, out) ==
    /\ jb_left > 0
    /\ jb_left' = jb_left - 1
    /\ jb' = after
    /\ jb_last' = JbRecord(op, seq, samples, after, out)

\* push_frame, pop_frame and reset called in any order, with frames that
\* are short, exact and long.
JbPush ==
    /\ UNCHANGED << callVars, regVars, codec, rtpVars, uiVars, audioVars >>
    /\ \E seq \in SeqNums :
       \E samples \in { << 7 >>, Payload(seq), Payload(seq) \o << 9 >> } :
          JbCall("push", seq, samples,
                 PushFrame(jb, seq, samples, MaxJbOps - jb_left), << >>)
    /\ UNCHANGED jb_run

JbPop ==
    /\ UNCHANGED << callVars, regVars, codec, rtpVars, uiVars, audioVars >>
    /\ LET r == PopFrame(jb)
       IN  JbCall("pop", NoSeq, << >>, r.jb, [ samples |-> r.samples, real |-> r.real ])
    /\ UNCHANGED jb_run

JbReset ==
    /\ UNCHANGED << callVars, regVars, codec, rtpVars, uiVars, audioVars >>
    /\ JbCall("reset", NoSeq, << >>, ResetJitterBuffer(jb), << >>)
    /\ UNCHANGED jb_run

\* A run on a fresh buffer: distinct sequence numbers are pushed in the
\* order chosen at the start, then frames are popped.
JbFeed ==
    /\ UNCHANGED << callVars, regVars, codec, rtpVars, uiVars, audioVars >>
    /\ jb_run.input # << >>
    /\ LET seq == Head(jb_run.input)
       IN  /\ jb' = PushFrame(jb, seq, Payload(seq), Len(jb_run.pushed))
           /\ jb_last' = JbRecord("push", seq, Payload(seq), jb', << >>)
           /\ jb_run' = [jb_run EXCEPT !.input = Tail(@), !.pushed = Append(@, seq)]
    /\ UNCHANGED jb_left

JbDrain ==
    /\ UNCHANGED << callVars, regVars, codec, rtpVars, uiVars, audioVars >>
    /\ jb_run.input = << >>
    /\ Len(jb_run.popped) < MaxPops
    /\ LET r == PopFrame(jb)
           out == [ samples |-> r.samples, real |-> r.real ]
       IN  /\ jb' = r.jb
           /\ jb_last' = JbRecord("pop", NoSeq, << >>, r.jb, out)
           /\ jb_run' = [jb_run EXCEPT !.popped = Append(@, out)]
    /\ UNCHANGED jb_left

\* The orders in which up to CAP distinct sequence numbers can be pushed.
PushOrders ==
    { s \in UNION { [1..k -> SeqNums] : k \in 0..CAP } :
          \A i, j \in 1..Len(s) : i # j => s[i] # s[j] }

InitJitter(inputs) ==
    /\ jb = NewJitterBuffer
    /\ jb_last = [ op |-> "new", played |-> NoSeq ]
    /\ jb_left = MaxJbOps
    /\ \E input \in inputs :
          jb_run = [ input |-> input, pushed |-> << >>, popped |-> << >> ]

-----------------------------------------------------------------------------
(* RTP packets: rtp_audio/src/rtp.rs, RtpPacket<N>::pack and unpack.  A     *)
(* byte is a number in 0..255; a u32 is its two 16-bit halves, so that      *)
(* all 32 bits are there.                                                   *)

N == 4

PACK_CAPACITY == 524

U32(hi, lo) == [ hi |-> hi, lo |-> lo ]

Bit(b) == IF b THEN 1 ELSE 0

\* RtpPacket::pack
Pack(h, payload) ==
    LET b0 == ((h.version % 4) * 64) + (Bit(h.padding) * 32)
                  + (Bit(h.extension) * 16) + (h.csrc_count % 16)
        b1 == (Bit(h.marker) * 128) + (h.payload_type % 128)
        header_bytes ==
            << b0, b1,
               (h.sequence_number \div 256) % 256, h.sequence_number % 256,
               h.timestamp.hi \div 256, h.timestamp.hi % 256,
               h.timestamp.lo \div 256, h.timestamp.lo % 256,
               h.ssrc.hi \div 256, h.ssrc.hi % 256,
               h.ssrc.lo \div 256, h.ssrc.lo % 256 >>
    IN  IF Len(header_bytes) + Len(payload) > PACK_CAPACITY
        THEN [ ok |-> FALSE, error |-> "BufferFull" ]
        ELSE [ ok |-> TRUE, bytes |-> header_bytes \o payload ]

\* unpack reading the whole second byte as the payload type.
UnpackUnmasked(bytes) ==
    IF Len(bytes) < 12 THEN [ ok |-> FALSE, error |-> "InvalidPacket" ]
    ELSE IF Len(bytes) - 12 > N THEN [ ok |-> FALSE, error |-> "BufferFull" ]
    ELSE [ ok |-> TRUE,
           header |-> [ version |-> bytes[1] \div 64,
                        padding |-> (bytes[1] \div 32) % 2 = 1,
                        extension |-> (bytes[1] \div 16) % 2 = 1,
                        csrc_count |-> bytes[1] % 16,
                        marker |-> bytes[2] \div 128 = 1,
                        payload_type |-> bytes[2],
                        sequence_number |-> (bytes[3] * 256) + bytes[4],
                        timestamp |-> U32((bytes[5] * 256) + bytes[6],
                                          (bytes[7] * 256) + bytes[8]),
                        ssrc |-> U32((bytes[9] * 256) + bytes[10],
                                     (bytes[11] * 256) + bytes[12]) ],
           payload |-> SubSeq(bytes, 13, Len(bytes)) ]

\* RtpPacket::unpack
Unpack(bytes) ==
    IF Len(bytes) < 12 THEN [ ok |-> FALSE, error |-> "InvalidPacket" ]
    ELSE IF Len(bytes) - 12 > N THEN [ ok |-> FALSE, error |-> "BufferFull" ]
    ELSE [ ok |-> TRUE,
           header |-> [ version |-> bytes[1] \div 64,
                        padding |-> (bytes[1] \div 32) % 2 = 1,
                        extension |-> (bytes[1] \div 16) % 2 = 1,
                        csrc_count |-> bytes[1] % 16,
                        marker |-> bytes[2] \div 128 = 1,
                        payload_type |-> bytes[2] % 128,
                        sequence_number |-> (bytes[3] * 256) + bytes[4],
                        timestamp |-> U32((bytes[5] * 256) + bytes[6],
                                          (bytes[7] * 256) + bytes[8]),
                        ssrc |-> U32((bytes[9] * 256) + bytes[10],
                                     (bytes[11] * 256) + bytes[12]) ],
           payload |-> SubSeq(bytes, 13, Len(bytes)) ]

\* Headers: the fields at both ends of their ranges, the header of the unit
\* test among them, and a version that does not fit its two bits.
Headers ==
    [ version : { 2, 3, 5 }, padding : BOOLEAN, extension : BOOLEAN,
      csrc_count : { 0, 15 }, marker : BOOLEAN, payload_type : { 0, 127 },
      sequence_number : { 42, 65535 },
      timestamp : { U32(0, 160), U32(65535, 65535) },
      ssrc : { U32(4386, 13124), U32(65535, 65535) } ]

\* pack is applied to the header and payload chosen at the start.
CodecPack ==
    /\ UNCHANGED << callVars, regVars, jitVars, rtpVars, uiVars, audioVars >>
    /\ codec.stage = "packet"
    /\ codec' = [codec EXCEPT !.stage = "bytes",
                              !.bytes = Pack(codec.header, codec.payload).bytes]

\* unpack is applied to the bytes.
CodecUnpack ==
    /\ UNCHANGED << callVars, regVars, jitVars, rtpVars, uiVars, audioVars >>
    /\ codec.stage = "bytes"
    /\ codec' = [codec EXCEPT !.stage = "unpacked", !.result = Unpack(codec.bytes)]

NoCodec == [ stage |-> "none" ]

\* What pack and unpack are applied to: a header with a payload of 0, 1 or N
\* bytes, or bytes that are no packet, too few for a header or too many for N.
Packets ==
    { [ stage |-> "packet", packed |-> TRUE, header |-> h, payload |-> p,
        bytes |-> << >>, result |-> << >> ] :
          h \in Headers, p \in { << >>, << 255 >>, [i \in 1..N |-> i] } }
      \cup { [ stage |-> "bytes", packed |-> FALSE, header |-> << >>,
               payload |-> << >>, bytes |-> b, result |-> << >> ] :
                 b \in { << >>, [i \in 1..11 |-> 128], [i \in 1..(12 + N + 1) |-> 0] } }

-----------------------------------------------------------------------------
(* The RTP task, receive side: app/src/tasks/rtp.rs (handle_command,        *)
(* handle_rx_packet).                                                       *)

MaxRtpSteps == 5

NoSsrc == [ none |-> TRUE ]

NoPt == -1

NoAddr == [ ip |-> "none", port |-> 0 ]

\* RtpTask::new, the fields the receive side uses.
NewRtpTask ==
    [ active |-> FALSE, signaled_peer |-> NoAddr, observed_peer |-> NoAddr,
      expected_remote_ssrc |-> NoSsrc, payload_type |-> NoPt, signaled_ip |-> "none" ]

\* The addresses str::parse::<SocketAddr> accepts.
IpAddrs == { "10.0.0.1", "10.0.0.2" }

\* RtpTask::handle_command
HandleCommand(task, cmd) ==
    IF cmd.cmd = "StartStream"
    THEN IF cmd.remote_ip \in IpAddrs
         THEN [ active |-> TRUE,
                signaled_peer |-> [ ip |-> cmd.remote_ip, port |-> cmd.remote_port ],
                observed_peer |-> NoAddr,
                expected_remote_ssrc |-> cmd.expected_remote_ssrc,
                payload_type |-> cmd.payload_type,
                signaled_ip |-> cmd.remote_ip ]
         ELSE task
    ELSE NewRtpTask

\* handle_rx_packet without the SSRC test.
HandleRxPacketAnySsrc(task, bytes, addr) ==
    LET pkt == Unpack(bytes)
        drop == [ task |-> task, forwarded |-> << >> ]
    IN  IF Len(bytes) < 12 THEN drop
        ELSE IF task.signaled_ip # "none" /\ addr.ip # task.signaled_ip THEN drop
        ELSE IF ~pkt.ok THEN drop
        ELSE IF task.payload_type # NoPt /\ pkt.header.payload_type # task.payload_type
        THEN drop
        ELSE [ task |-> [task EXCEPT !.observed_peer = addr],
               forwarded |-> << [ header |-> pkt.header, payload |-> pkt.payload ] >> ]

\* RtpTask::handle_rx_packet
HandleRxPacket(task, bytes, addr) ==
    LET pkt == Unpack(bytes)
        drop == [ task |-> task, forwarded |-> << >> ]
    IN  IF Len(bytes) < 12 THEN drop
        ELSE IF task.signaled_ip # "none" /\ addr.ip # task.signaled_ip THEN drop
        ELSE IF ~pkt.ok THEN drop
        ELSE IF task.payload_type # NoPt /\ pkt.header.payload_type # task.payload_type
        THEN drop
        ELSE IF task.expected_remote_ssrc # NoSsrc
                    /\ task.expected_remote_ssrc # pkt.header.ssrc
        THEN drop
        ELSE [ task |-> [task EXCEPT !.expected_remote_ssrc = pkt.header.ssrc,
                                     !.observed_peer = addr],
               forwarded |-> << [ header |-> pkt.header, payload |-> pkt.payload ] >> ]

StartStreams ==
    [ cmd : { "StartStream" }, remote_ip : { "10.0.0.1", "not an address" },
      remote_port : { 4000 }, expected_remote_ssrc : { NoSsrc, U32(4386, 13124) },
      payload_type : { 0, 8 } ]

\* Datagrams: packets of either sender and payload type, one cut short of
\* its header, one longer than a packet may be; from either host and port.
Datagrams ==
    LET packets == { Pack([ version |-> 2, padding |-> FALSE, extension |-> FALSE,
                            csrc_count |-> 0, marker |-> FALSE, payload_type |-> pt,
                            sequence_number |-> 42, timestamp |-> U32(0, 160),
                            ssrc |-> ssrc ], payload).bytes :
                         pt \in { 0, 8 }, ssrc \in { U32(4386, 13124), U32(65535, 65535) },
                         payload \in { << 1 >>, [i \in 1..(N + 1) |-> i] } }
    IN  [ bytes : packets \cup { SubSeq(b, 1, 11) : b \in packets },
          addr : [ ip : IpAddrs, port : { 4000, 4002 } ] ]

RtpStep(op, input, task, forwarded, fwd) ==
    /\ rtp_left > 0
    /\ rtp_left' = rtp_left - 1
    /\ rtp_task' = task
    /\ rtp_last' = [ op |-> op, input |-> input, task |-> rtp_task,
                     forwarded |-> forwarded ]
    /\ rtp_fwd' = fwd
    /\ UNCHANGED rtp_tick

\* poll_commands: a StartStream or a StopStream arrives.  The history starts
\* anew when the command changes the stream.
RtpCommand ==
    /\ UNCHANGED << callVars, regVars, jitVars, codec, uiVars, audioVars >>
    /\ \E cmd \in StartStreams \cup { [ cmd |-> "StopStream" ] } :
          RtpStep("command", cmd, HandleCommand(rtp_task, cmd), << >>,
                  IF cmd.cmd = "StartStream" /\ HandleCommand(rtp_task, cmd) = rtp_task
                  THEN rtp_fwd ELSE { })

\* poll_rx_socket, which run calls while the stream is active: one datagram.
RtpReceive ==
    /\ UNCHANGED << callVars, regVars, jitVars, codec, uiVars, audioVars >>
    /\ rtp_task.active
    /\ \E d \in Datagrams :
          LET r == HandleRxPacket(rtp_task, d.bytes, d.addr)
          IN  RtpStep("rx", d, r.task, r.forwarded,
                      rtp_fwd \cup { r.forwarded[i].header.ssrc : i \in 1..Len(r.forwarded) })

-----------------------------------------------------------------------------
(* The RTP task, send side: the tick of RtpTask::run.  next_tick is kept as  *)
(* its distance in ms from now, negative once it has passed.                 *)

\* RtpTask.tick
TICK == 20

\* RtpTask::new: next_tick is Instant::now().  sched records the tick the
\* last turn of the loop handled: where next_tick was and where it was put.
NewRtpTick == [ active |-> FALSE, next_tick |-> 0, sched |-> [ some |-> FALSE ] ]

\* handle_command, the fields of the send side.
TickCommand(t, cmd) ==
    IF cmd = "StartStream" THEN [t EXCEPT !.active = TRUE, !.next_tick = TICK]
    ELSE IF cmd = "StopStream" THEN [t EXCEPT !.active = FALSE]
    ELSE t

\* while self.next_tick <= now { self.next_tick += self.tick }
RECURSIVE FastForward(_)
FastForward(next_tick) ==
    IF next_tick <= 0 THEN FastForward(next_tick + TICK) ELSE next_tick

\* One turn of the loop of RtpTask::run: poll_commands; while active the
\* send tick if it is due and a sleep of 10 ms, otherwise a sleep of 50 ms
\* after which next_tick is one period from now.  The thread wakes late ms
\* after its sleep.
RtpRun ==
    /\ UNCHANGED << callVars, regVars, jitVars, codec, uiVars, audioVars >>
    /\ UNCHANGED << rtp_task, rtp_last, rtp_fwd >>
    /\ rtp_left > 0
    /\ rtp_left' = rtp_left - 1
    /\ \E cmd \in { "none", "StartStream", "StopStream" }, late \in Lateness :
          LET t == TickCommand(rtp_tick, cmd)
          IN  rtp_tick' =
                IF t.active
                THEN IF t.next_tick <= 0
                     THEN [t EXCEPT !.next_tick = FastForward(t.next_tick) - (10 + late),
                                    !.sched = [ some |-> TRUE, due |-> t.next_tick,
                                                next |-> FastForward(t.next_tick) ]]
                     ELSE [t EXCEPT !.next_tick = @ - (10 + late),
                                    !.sched = [ some |-> FALSE ]]
                ELSE [t EXCEPT !.next_tick = TICK, !.sched = [ some |-> FALSE ]]

InitRtp ==
    /\ rtp_task = NewRtpTask
    /\ rtp_last = [ op |-> "new" ]
    /\ rtp_fwd = { }
    /\ rtp_left = MaxRtpSteps
    /\ rtp_tick = NewRtpTick

-----------------------------------------------------------------------------
(* The UI task's button gestures: app/src/tasks/ui.rs, poll_button.  An     *)
(* instant in the past is kept as its age in ms, capped at AgeCap, beyond   *)
(* both thresholds.                                                         *)

POLL_INTERVAL == 40
SHORT_PRESS_MAX == 650
DOUBLE_TAP_WINDOW == 400
AgeCap == 700

\* The instant recorded d ms ago, d ms later.
Age(t, d) == IF t = NoInstant THEN NoInstant ELSE Min(t + d, AgeCap)

\* UiTask::new, the fields poll_button uses.
NewUiTask(initial_state) ==
    [ last_button_state |-> initial_state, press_started_at |-> NoInstant,
      last_short_release_at |-> NoInstant ]

\* poll_button that never pairs two short presses.
PollButtonNoDoubleTap(task, state) ==
    LET changed == state # task.last_button_state
        released == task.last_button_state = "Pressed" /\ state = "Released"
        short == released /\ task.press_started_at # NoInstant
                     /\ task.press_started_at <= SHORT_PRESS_MAX
    IN  [ task |-> [ last_button_state |-> state,
                     press_started_at |->
                         IF task.last_button_state = "Released" /\ state = "Pressed"
                         THEN 0
                         ELSE IF released THEN NoInstant ELSE task.press_started_at,
                     last_short_release_at |->
                         IF short THEN 0 ELSE task.last_short_release_at ],
          events |-> (IF changed THEN << [ event |-> "StateChanged", state |-> state ] >>
                      ELSE << >>)
                     \o (IF short THEN << [ event |-> "ShortPress" ] >> ELSE << >>) ]

\* UiTask::poll_button, with the button state it read.
PollButton(task, state) ==
    LET unexpired == IF task.last_short_release_at # NoInstant
                        /\ task.last_short_release_at > DOUBLE_TAP_WINDOW
                     THEN NoInstant ELSE task.last_short_release_at
        changed == state # task.last_button_state
        pressed == task.last_button_state = "Released" /\ state = "Pressed"
        released == task.last_button_state = "Pressed" /\ state = "Released"
        started == IF pressed THEN 0 ELSE task.press_started_at
        short == released /\ started # NoInstant /\ started <= SHORT_PRESS_MAX
        double == short /\ unexpired # NoInstant /\ unexpired <= DOUBLE_TAP_WINDOW
    IN  [ task |-> [ last_button_state |-> state,
                     press_started_at |-> IF released THEN NoInstant ELSE started,
                     last_short_release_at |->
                         IF double THEN NoInstant ELSE IF short THEN 0 ELSE unexpired ],
          events |-> (IF changed THEN << [ event |-> "StateChanged", state |-> state ] >>
                      ELSE << >>)
                     \o (IF double THEN << [ event |-> "DoubleTap" ] >>
                         ELSE IF short THEN << [ event |-> "ShortPress" ] >>
                         ELSE << >>) ]

\* One turn of UiTask::run: d ms after the turn before, poll_button reads
\* the button.  The history keeps, from what the task saw and sent, how long
\* ago the press began and how long ago a ShortPress was sent that no
\* DoubleTap has followed.
UiPoll ==
    /\ UNCHANGED << callVars, regVars, jitVars, codec, rtpVars, audioVars >>
    /\ \E d \in { POLL_INTERVAL, DOUBLE_TAP_WINDOW - POLL_INTERVAL,
                  SHORT_PRESS_MAX - POLL_INTERVAL },
          state \in { "Pressed", "Released" } :
          LET now == [ last_button_state |-> ui_task.last_button_state,
                       press_started_at |-> Age(ui_task.press_started_at, d),
                       last_short_release_at |-> Age(ui_task.last_short_release_at, d) ]
              r == PollButton(now, state)
              sent_short == \E i \in 1..Len(r.events) : r.events[i].event = "ShortPress"
              sent_double == \E i \in 1..Len(r.events) : r.events[i].event = "DoubleTap"
          IN  /\ ui_task' = r.task
              /\ ui_last' = [ op |-> "poll", state |-> state, d |-> d,
                              was |-> ui_task.last_button_state,
                              held |-> Age(ui_hist.pressed, d),
                              gap |-> Age(ui_hist.short, d),
                              events |-> r.events ]
              /\ ui_hist' =
                    [ pressed |-> IF ui_task.last_button_state = "Released"
                                     /\ state = "Pressed" THEN 0
                                  ELSE IF state = "Released" THEN NoInstant
                                  ELSE Age(ui_hist.pressed, d),
                      short |-> IF sent_short THEN 0
                                ELSE IF sent_double THEN NoInstant
                                ELSE Age(ui_hist.short, d) ]

InitUi(states) ==
    /\ \E s \in states : ui_task = NewUiTask(s)
    /\ ui_last = [ op |-> "new" ]
    /\ ui_hist = [ pressed |-> NoInstant, short |-> NoInstant ]

-----------------------------------------------------------------------------
(* The mu-law codec: rtp_audio/src/codecs/ulaw.rs.  A u8 is a number in     *)
(* 0..255 and an i16 a number in -32768..32767; a shift to the right is a  *)
(* floor division, which is what >> does on a signed integer, and a bit    *)
(* operation on a signed value works on its two's complement.              *)

MaxUlawSteps == 4

ULAW_BIAS == 132

ULAW_CLIP == 32635

\* x as i16
AsI16(x) == LET m == x % 65536 IN IF m >= 32768 THEN m - 65536 ELSE m

\* a & b on the two's complement of a and b, for a mask b >= 0
RECURSIVE BitAnd(_, _)
BitAnd(a, b) ==
    IF b = 0 THEN 0
    ELSE (2 * BitAnd(a \div 2, b \div 2)) + ((a % 2) * (b % 2))

\* The while loop of encode_ulaw.
RECURSIVE Exponent(_, _)
Exponent(tmp, exponent) ==
    IF tmp > 1 /\ exponent < 7 THEN Exponent(tmp \div 2, exponent + 1) ELSE exponent

\* The body of the loop of encode_ulaw without the bias.
EncodeSampleNoBias(s) ==
    LET clamped == Max(AsI16(-ULAW_CLIP), Min(s, AsI16(ULAW_CLIP)))
        sign == BitAnd(clamped \div 256, 128) % 256
        magnitude == IF clamped < 0 THEN (-clamped) - 1 ELSE clamped
        exponent == Exponent(magnitude \div 128, 0)
        mantissa == BitAnd(magnitude \div (2 ^ (exponent + 3)), 15)
    IN  255 - (sign + ((exponent * 16) % 256) + (mantissa % 256))

\* The body of the loop of encode_ulaw, for one sample.  !clamped is
\* -clamped - 1; sign, exponent << 4 and mantissa have no bit in common, so
\* their | is their sum, and ! on a u8 is the distance to 255.
EncodeSample(s) ==
    LET clamped == Max(AsI16(-ULAW_CLIP), Min(s, AsI16(ULAW_CLIP)))
        sign == BitAnd(clamped \div 256, 128) % 256
        magnitude == IF clamped < 0 THEN ((-clamped) - 1) + ULAW_BIAS
                                    ELSE clamped + ULAW_BIAS
        exponent == Exponent(magnitude \div 128, 0)
        mantissa == BitAnd(magnitude \div (2 ^ (exponent + 3)), 15)
    IN  255 - (sign + ((exponent * 16) % 256) + (mantissa % 256))

\* encode_ulaw: one byte per sample; a push into the full Vec<u8, 512> is
\* dropped.
EncodeUlaw(samples) == [i \in 1..Min(Len(samples), 512) |-> EncodeSample(samples[i])]

\* The body of the loop of compute_decode_ulaw reading the byte as it is.
DecodeByteNoInvert(b) ==
    LET byte == b
        sign == BitAnd(byte, 128) # 0
        exponent == BitAnd(byte \div 16, 7)
        mantissa == BitAnd(byte, 15)
        magnitude == (((mantissa * 8) + ULAW_BIAS) * (2 ^ exponent)) - ULAW_BIAS
    IN  AsI16(IF sign THEN -magnitude ELSE magnitude)

\* The body of the loop of compute_decode_ulaw, for one byte.
DecodeByte(b) ==
    LET byte == 255 - b
        sign == BitAnd(byte, 128) # 0
        exponent == BitAnd(byte \div 16, 7)
        mantissa == BitAnd(byte, 15)
        magnitude == (((mantissa * 8) + ULAW_BIAS) * (2 ^ exponent)) - ULAW_BIAS
    IN  AsI16(IF sign THEN -magnitude ELSE magnitude)

\* decode_ulaw, which is compute_decode_ulaw or the table built by the same
\* computation.
DecodeUlaw(bytes) == [i \in 1..Min(Len(bytes), 512) |-> DecodeByte(bytes[i])]

\* The samples encode_ulaw is given at the start of a run: both ends of the
\* i16 range, the clipping levels and their neighbours, and values around 0.
Samples == { -32768, -32636, -32635, -32124, -133, -132, -1, 0, 1, 131, 132,
             32124, 32635, 32636, 32767 }

NoUlaw == [ first |-> "none", trail |-> << >> ]

\* What a run starts from: any mu-law byte, or one of the samples.
UlawInputs ==
    { [ first |-> "byte", trail |-> << b >> ] : b \in 0..255 }
      \cup { [ first |-> "pcm", trail |-> << s >> ] : s \in Samples }

\* The last value of the trail is a byte (TRUE) or a sample (FALSE).
UlawHoldsByte == (ulaw.first = "byte") = (Len(ulaw.trail) % 2 = 1)

\* decode_ulaw(&[b])[0] for the byte the run has reached
UlawDecode ==
    /\ UNCHANGED << callVars, regVars, jitVars, codec, rtpVars, uiVars, pttVars >>
    /\ ulaw.first # "none"
    /\ Len(ulaw.trail) <= MaxUlawSteps
    /\ UlawHoldsByte
    /\ ulaw' = [ulaw EXCEPT
                  !.trail = @ \o << DecodeUlaw(<< ulaw.trail[Len(ulaw.trail)] >>)[1] >>]

\* encode_ulaw(&[pcm])[0] for the sample the run has reached
UlawEncode ==
    /\ UNCHANGED << callVars, regVars, jitVars, codec, rtpVars, uiVars, pttVars >>
    /\ ulaw.first # "none"
    /\ Len(ulaw.trail) <= MaxUlawSteps
    /\ ~UlawHoldsByte
    /\ ulaw' = [ulaw EXCEPT
                  !.trail = @ \o << EncodeUlaw(<< ulaw.trail[Len(ulaw.trail)] >>)[1] >>]

-----------------------------------------------------------------------------
(* Specifications *)

\* Every component as it is constructed, with the inputs of the runs that
\* take inputs chosen from the given sets.
InitOthers(orders, packets, buttons, codes) ==
    /\ InitReg
    /\ InitJitter(orders)
    /\ codec \in packets
    /\ InitRtp
    /\ InitUi(buttons)
    /\ ulaw \in codes

InitWith(orders, packets, buttons, codes) ==
    InitCall /\ InitOthers(orders, packets, buttons, codes) /\ InitAudio(FALSE)

Init == InitWith({ << >> }, { NoCodec }, { "Released" }, { NoUlaw })

\* The task started with the given numbers of datagrams, button events and
\* timer waits, every other component as constructed.
InitTask(msgs, cmds, sleeps, on) ==
    /\ InitCallWith(msgs, cmds, sleeps)
    /\ InitOthers({ << >> }, { NoCodec }, { "Released" }, { NoUlaw })
    /\ InitAudio(on)

SpecTx == Init /\ [][TxNext]_vars

Spec == Init /\ [][Next]_vars

\* The task loop when the peer may also send a CANCEL without a CSeq header.
SpecCancel ==
    /\ InitTask(MaxMsgs, MaxCmds, MaxSleeps, FALSE)
    /\ [][Next \/ RecvBadCancel]_vars

\* The task loop on a longer exchange: one datagram more, one button event,
\* no wait for a timer.
SpecLong ==
    /\ InitTask(LongMsgs, LongCmds, LongSleeps, FALSE)
    /\ [][Next]_vars

\* A wait of the task during which a pending instant is reached.
SleepOn == Sleep /\ sleeps_left' < sleeps_left

\* The task loop as a thread that keeps running: every iteration ends, and
\* as each iteration sleeps 10 ms, an instant the task waits for is reached
\* after finitely many of them.  One datagram and one button event may
\* arrive; nothing says that they do.
SpecLive ==
    /\ InitTask(LiveMsgs, LiveCmds, MaxSleeps, FALSE)
    /\ [][Next]_vars
    /\ WF_vars(Next)
    /\ SF_vars(SleepOn)

\* The SIP task and the Audio task side by side, the Audio task taking its
\* turns whenever it is scheduled.
SpecPtt ==
    /\ InitTask(PttMsgs, PttCmds, PttSleeps, TRUE)
    /\ [][Next \/ AudioPoll \/ AudioWait]_vars

\* The Audio task alone, the commands on its channel drawn from those the
\* SIP task sends, and the channel disconnected at any time.
SpecAudio ==
    /\ InitTask(MaxMsgs, MaxCmds, MaxSleeps, TRUE)
    /\ [][AudioSend \/ AudioClose \/ AudioPoll \/ AudioWait]_vars

\* The three 20 ms schedulers: the Audio task with its playout and capture
\* ticks, and the send tick of the RTP task.
SpecTicks ==
    /\ InitTask(MaxMsgs, MaxCmds, MaxSleeps, TRUE)
    /\ [][AudioSend \/ AudioClose \/ AudioPoll \/ AudioWait \/ RtpRun]_vars

SpecReg == Init /\ [][RegMaybeSend \/ RegReceive \/ RegSocketEmpty \/ RegSleep]_vars

SpecJitter == Init /\ [][JbPush \/ JbPop \/ JbReset]_vars

SpecJitterRun ==
    InitWith(PushOrders, { NoCodec }, { "Released" }, { NoUlaw }) /\ [][JbFeed \/ JbDrain]_vars

SpecCodec ==
    InitWith({ << >> }, Packets, { "Released" }, { NoUlaw }) /\ [][CodecPack \/ CodecUnpack]_vars

SpecRtp == Init /\ [][RtpCommand \/ RtpReceive]_vars

SpecUi ==
    InitWith({ << >> }, { NoCodec }, { "Pressed", "Released" }, { NoUlaw }) /\ [][UiPoll]_vars

SpecUlaw ==
    InitWith({ << >> }, { NoCodec }, { "Released" }, UlawInputs) /\ [][UlawDecode \/ UlawEncode]_vars

-----------------------------------------------------------------------------
(* Timer G and Timer H of the INVITE server transaction (SpecTx) *)

\* The wait before the k-th retransmission: T1 doubled k-1 times, at most T2.
RECURSIVE GInterval(_)
GInterval(k) == IF k = 1 THEN T1 ELSE Min(2 * GInterval(k - 1), T2)

\* The time from the final response to its k-th retransmission.
RECURSIVE GTime(_)
GTime(k) == IF k = 0 THEN 0 ELSE GTime(k - 1) + GInterval(k)

\* More retransmissions than Timer H leaves room for.
MaxG == 12

RetransmissionsDue(t) == Cardinality({ k \in 1..MaxG : GTime(k) <= t })

\* C9: after a final response to the INVITE is recorded at t0, with the timers
\* polled at every step and no ACK since, no retransmission has been produced
\* before t0 + T1, exactly one at t0 + T1, exactly two at t0 + 3*T1, and in
\* general one per Timer G interval, the intervals doubling from T1 and never
\* exceeding T2; the interval a transaction stores never exceeds T2.
C9_TimerGBackoff ==
    /\ (since_final # NoInstant /\ since_final < TIMER_H /\ ~ack_since) =>
          /\ since_final < T1 => retransmits = 0
          /\ since_final = T1 => retransmits = 1
          /\ since_final = 3 * T1 => retransmits = 2
          /\ retransmits = RetransmissionsDue(since_final)
    /\ \A i \in 1..Len(transactions) :
          /\ transactions[i].timer_g_interval <= T2
          /\ transactions[i].state = "Completed" =>
                \E k \in 1..MaxG : transactions[i].timer_g_interval = GInterval(k)

\* The second retransmission has just been produced, 3*T1 after the final
\* response, no ACK having arrived.
C9_Witness ==
    /\ since_final = 3 * T1
    /\ ~ack_since
    /\ retransmits = 2
    /\ Len(sent) = 1
    /\ sent[1].via = "timer"
    /\ sent[1].response.status_code >= 200

\* C10: once an ACK with the transaction's key has been received before
\* Timer H, or once Timer H has passed (the transaction is then dropped),
\* polling the timers produces no retransmission for that transaction.
C10_NoRetransmissionAfterAck ==
    /\ \A i \in 1..Len(sent) :
          sent[i].via = "timer" => Key(sent[i].response) \notin acked
    /\ (since_final # NoInstant /\ since_final >= TIMER_H) =>
          \A i \in 1..Len(sent) : sent[i].via # "timer"

-----------------------------------------------------------------------------
(* The call handling of the SIP task (Spec).  The formulas read the record *)
(* of the last step: the handler, its input, and the dialog, call context  *)
(* and answered INVITEs it found.                                          *)

\* The responses with this status the task itself sent in the last step
\* (not the transaction layer's copies).
Originals(status) ==
    { i \in 1..Len(sent) : sent[i].via = "tu" /\ sent[i].response.status_code = status }

Quiet == sent = << >> /\ ui_tx = << >> /\ audio_tx = << >> /\ rtp_tx = << >>

\* The ring-timeout check ran on a call ringing as UAS whose deadline is reached.
RingTimedOut(step) ==
    /\ step.op = "timeouts"
    /\ step.dialog.state = "Ringing"
    /\ step.dialog.role = "Uas"
    /\ step.ctx.some
    /\ step.ctx.ring_deadline = 0

ReceivedInvite(step) == step.op = "recv" /\ step.input.method = "INVITE"

\* C2: an initial INVITE whose body fails SDP parsing, received while the
\* dialog is Idle, is answered by exactly one 488; the dialog stays Idle, no
\* call context is stored and no Ringing is broadcast.
C2_BadSdpLeavesIdle ==
    ( /\ ReceivedInvite(last)
      /\ last.dialog.state = "Idle"
      /\ ~last.ctx.some
      /\ last.input.body # ""
      /\ ~SdpParse(last.input.body).ok ) =>
          /\ Cardinality(Originals(488)) = 1
          /\ dialog.state = "Idle"
          /\ ~call_ctx.some
          /\ ui_tx = << >>
          /\ audio_tx = << >>

\* C3: an INVITE that is not in-dialog, received while a call exists (dialog
\* Inviting, Ringing or Established), is answered 486, and neither the dialog
\* state nor the stored call context changes.
C3_BusyHere ==
    ( /\ ReceivedInvite(last)
      /\ last.dialog.state \in { "Inviting", "Ringing", "Established" }
      /\ ~InDialog(last.dialog, last.input) ) =>
          /\ Cardinality(Originals(486)) = 1
          /\ dialog.state = last.dialog.state
          /\ call_ctx = last.ctx

\* C4: an initial INVITE with a parseable SDP body, received while the dialog
\* is Idle or Terminated, is answered 180 in the same step; the dialog is
\* Ringing as UAS, the call context holds the INVITE, the remote SDP, a local
\* SDP and the ring deadline now + ring_timeout, and Ringing goes to UI and
\* to Audio.
C4_InitialInviteRings ==
    ( /\ ReceivedInvite(last)
      /\ last.dialog.state \in { "Idle", "Terminated" }
      /\ SdpParse(last.input.body).ok ) =>
          /\ Cardinality(Originals(180)) = 1
          /\ dialog.state = "Ringing"
          /\ dialog.role = "Uas"
          /\ call_ctx.some
          /\ call_ctx.invite = last.input
          /\ call_ctx.remote_sdp = SdpParse(last.input.body)
          /\ call_ctx.local_sdp = BuildLocalSdp
          /\ call_ctx.ring_deadline = RingTimeout
          /\ ui_tx = << UiDialogStateChanged("Ringing") >>
          /\ audio_tx = << AudioSetDialogState("Ringing") >>

Pressed(step, kind) == step.op = "button" /\ step.input.kind = kind

\* C5: a ShortPress handled while the dialog is Ringing as UAS with a call
\* context sends a 200 for the stored INVITE carrying the local SDP and a
\* Contact header and clears the ring deadline, and no 480 is sent afterwards
\* for an INVITE of the dialog that was answered; a ShortPress handled in any
\* other state sends nothing and changes nothing.
C5_Answer ==
    /\ Pressed(last, "ShortPress") =>
          IF last.dialog.state = "Ringing" /\ last.dialog.role = "Uas" /\ last.ctx.some
          THEN /\ Len(sent) = 1
               /\ Originals(200) = { 1 }
               /\ Key(sent[1].response) = Key(last.ctx.invite)
               /\ sent[1].response.body = last.ctx.local_sdp
               /\ sent[1].response.contact
               /\ call_ctx.some
               /\ call_ctx.ring_deadline = NoInstant
          ELSE Quiet /\ dialog = last.dialog /\ call_ctx = last.ctx
    /\ \A i \in Originals(480) : Key(sent[i].response) \notin last.answered

\* An ACK that matches the ringing dialog was handled.
AckMatchedRinging(step) ==
    /\ step.op = "recv"
    /\ step.input.method = "ACK"
    /\ step.dialog.state = "Ringing"
    /\ step.dialog.role = "Uas"
    /\ step.input.call_id = step.dialog.id.call_id
    /\ step.input.to_tag = step.dialog.id.local_tag

StartStreamTo(remote_sdp) ==
    [ cmd |-> "StartStream",
      remote_ip |-> remote_sdp.connection_address,
      remote_port |-> remote_sdp.media.port,
      expected_remote_ssrc |-> "None",
      local_ssrc |-> "None",
      payload_type |-> remote_sdp.media.payload_type ]

\* C6 as stated: an ACK matching the ringing dialog makes the dialog
\* Established, Established goes to UI and to Audio, and a StartStream with the
\* remote SDP's connection address, media port and payload type and no
\* expected SSRC goes to RTP.
C6_AckStartsStream ==
    AckMatchedRinging(last) =>
        /\ dialog.state = "Established"
        /\ ui_tx = << UiDialogStateChanged("Established") >>
        /\ audio_tx = << AudioSetDialogState("Established") >>
        /\ last.ctx.some
        /\ rtp_tx = << StartStreamTo(last.ctx.remote_sdp) >>

\* C6 amended: an ACK matching the ringing dialog makes the dialog
\* Established and Established goes to UI and to Audio; RTP gets exactly one
\* StartStream with the remote SDP's address, port and payload type and no
\* expected SSRC if a call context is stored whose remote SDP has a non-zero
\* media port and an address of at most 48 bytes, one StopStream if the
\* stored media port is 0, and nothing otherwise.
C6_AckStartsStreamUnlessHeld ==
    AckMatchedRinging(last) =>
        /\ dialog.state = "Established"
        /\ ui_tx = << UiDialogStateChanged("Established") >>
        /\ audio_tx = << AudioSetDialogState("Established") >>
        /\ call_ctx = last.ctx
        /\ rtp_tx = IF ~last.ctx.some THEN << >>
                    ELSE IF last.ctx.remote_sdp.media.port = 0 THEN << StopStream >>
                    ELSE IF last.ctx.remote_sdp.connection_address \in LongAddrs
                    THEN << >>
                    ELSE << StartStreamTo(last.ctx.remote_sdp) >>

\* The ACK of an answered call has started the stream to the caller.
C6_Witness ==
    /\ AckMatchedRinging(last)
    /\ last.answered # { }
    /\ dialog.state = "Established"
    /\ Len(rtp_tx) = 1
    /\ rtp_tx[1].cmd = "StartStream"
    /\ rtp_tx[1].remote_port = 20000

\* C7: a DoubleTap handled while the dialog is Established sends StopStream,
\* terminates the dialog, sends Idle to UI and to Audio and drops the call
\* context; a DoubleTap handled while the dialog is idle, or ringing and not
\* yet answered, changes nothing.
C7_Hangup ==
    Pressed(last, "DoubleTap") =>
        IF last.dialog.state = "Established"
        THEN /\ rtp_tx = << StopStream >>
             /\ dialog.state = "Terminated"
             /\ ui_tx = << UiDialogStateChanged("Idle") >>
             /\ audio_tx = << AudioSetDialogState("Idle") >>
             /\ ~call_ctx.some
        ELSE ( \/ last.dialog.state \in { "Idle", "Terminated" }
               \/ last.dialog.state = "Ringing" /\ last.answered = { } ) =>
                  Quiet /\ dialog = last.dialog /\ call_ctx = last.ctx

\* C8: a button StateChanged edge handled while a call context exists
\* produces exactly one SetMode, Talk for Pressed and Listen for Released; an
\* edge handled without a call context produces none; no other step
\* produces a SetMode.
C8_SetMode ==
    /\ Pressed(last, "StateChanged") =>
          audio_tx = IF last.ctx.some
                     THEN << AudioSetMode(IF last.input.state = "Pressed"
                                          THEN "Talk" ELSE "Listen") >>
                     ELSE << >>
    /\ (\E i \in 1..Len(audio_tx) : audio_tx[i].cmd = "SetMode") =>
          Pressed(last, "StateChanged")

\* The button went down during a call: Talk was selected.
C8_Witness ==
    /\ Pressed(last, "StateChanged")
    /\ last.input.state = "Pressed"
    /\ last.ctx.some
    /\ audio_tx = << AudioSetMode("Talk") >>

-----------------------------------------------------------------------------
(* Registration (SpecReg) *)

\* The step just taken handled a REGISTER response with one of these codes.
Answered(codes) ==
    /\ reg_last.op = "response"
    /\ IsRegisterResponse(reg_last.input)
    /\ reg_last.input.status_code \in codes

\* The step just taken sent a REGISTER.
Registered == reg_last.op = "register" /\ reg_sent # << >>

\* The Expires a 200 grants: its Expires header, or else what was last granted.
Granted == ParseExpires(reg_last.input.expires, reg_last.registration.last_expires)

\* C12: after a 200 to REGISTER granting Expires = E the next REGISTER is due
\* max(5, 0.8 * E rounded down) seconds later, which is never less than 5 s
\* and, from E = 7 on, less than one second short of 0.8 * E; no REGISTER
\* is sent before it is due, and every REGISTER carries the Call-ID and the
\* From/To tags of the one before it and a CSeq exactly one greater.
C12_RefreshSchedule ==
    /\ Answered({ 200 }) =>
        /\ registration.state = "Registered"
        /\ next_register = Max(5, (8 * Granted) \div 10) * 1000
        /\ next_register >= 5000
        /\ Granted >= 7 =>
            /\ next_register <= 800 * Granted
            /\ next_register > 800 * Granted - 1000
    /\ Registered =>
        /\ Reached(reg_last.next_register)
        /\ Len(reg_sent) = 1
        /\ reg_last.prev # NoHeader =>
            /\ reg_sent[1].call_id = reg_last.prev.call_id
            /\ reg_sent[1].from_tag = reg_last.prev.from_tag
            /\ reg_sent[1].to_tag = reg_last.prev.to_tag
            /\ reg_sent[1].cseq = reg_last.prev.cseq + 1

\* A refresh goes out when the time set by a 200 that granted 60 s is reached.
C12_Witness ==
    /\ Registered
    /\ reg_last.registration.state = "Registered"
    /\ reg_last.registration.last_expires = 60
    /\ reg_sent[1].cseq = reg_last.prev.cseq + 1
    /\ reg_sent[1].expires = 60

\* The challenge a 401/407 offers: a Digest challenge in WWW-Authenticate
\* or, on a 407, in Proxy-Authenticate.
Offered(resp) ==
    IF resp.www_authenticate # NoHeader /\ ParseWwwAuthenticate(resp.www_authenticate).ok
    THEN [ some |-> TRUE,
           challenge |-> ParseWwwAuthenticate(resp.www_authenticate).challenge ]
    ELSE IF /\ resp.status_code = 407
            /\ resp.proxy_authenticate # NoHeader
            /\ ParseWwwAuthenticate(resp.proxy_authenticate).ok
    THEN [ some |-> TRUE,
           challenge |-> ParseWwwAuthenticate(resp.proxy_authenticate).challenge ]
    ELSE NoChallenge

\* C13: a 401/407 stores the challenge it offers and leaves the state
\* Unregistered; the REGISTER that follows carries the Authorization computed
\* from the stored challenge and goes out no sooner than 1 s after the
\* challenge was handled.
C13_AuthRetry ==
    /\ Answered({ 401, 407 }) =>
        /\ registration.state = "Unregistered"
        /\ Offered(reg_last.input).some =>
            registration.last_challenge = Offered(reg_last.input)
    /\ Registered /\ reg_last.since_auth # NoInstant =>
        /\ reg_last.since_auth >= 1000
        /\ reg_last.registration.last_challenge.some =>
            reg_sent[1].authorization =
                AuthorizationHeader(reg_last.registration.last_challenge.challenge,
                                    [ username |-> Settings.sip_username,
                                      password |-> Settings.sip_password ],
                                    "REGISTER", Settings.sip_registrar)

\* The step just taken found a REGISTER unanswered for REGISTER_TIMEOUT.
TimedOut ==
    /\ reg_last.op = "register"
    /\ reg_last.registration.state = "Registering"
    /\ Reached(reg_last.next_register)

-----------------------------------------------------------------------------
(* INVITE retransmissions absorbed by the transaction manager (Spec) *)

\* C11: handling an INVITE whose (Call-ID, CSeq) is not tracked adds one
\* transaction, the only one with that key, and re-sends nothing; handling
\* one whose key is tracked adds none and re-sends exactly the response last
\* recorded for that transaction (nothing if none was recorded yet), first
\* thing and to the sender.
C11_InviteTransactions ==
    [][ ( /\ pc = "socket"
          /\ msgs_left' < msgs_left
          /\ last'.op = "recv"
          /\ last'.input.method = "INVITE" ) =>
        LET req == last'.input
            i == FindTx(transactions, req.call_id, req.cseq)
            resent == { j \in 1..Len(sent') : sent'[j].via = "resend" }
            tracked == { j \in 1..Len(transactions') :
                            Matches(transactions'[j], req.call_id, req.cseq) }
        IN  /\ Cardinality(tracked) = 1
            /\ i = 0 => resent = { } /\ Len(transactions') = Len(transactions) + 1
            /\ i # 0 =>
                 /\ Len(transactions') = Len(transactions)
                 /\ IF transactions[i].last_response = NoResponse
                    THEN resent = { }
                    ELSE resent = { 1 }
                         /\ sent'[1].response = transactions[i].last_response
      ]_vars

\* A repeated INVITE was re-sent the stored response, and its transaction is
\* still the only one.
C11_Witness ==
    /\ last.op = "recv"
    /\ last.input.method = "INVITE"
    /\ Len(transactions) = 1
    /\ \E j \in 1..Len(sent) : sent[j].via = "resend"

-----------------------------------------------------------------------------
(* Call-state updates to UI and Audio (Spec) *)

\* The phone states carried by the commands of one kind in a channel, in order.
PhoneStates(channel, cmd) ==
    LET updates == SelectSeq(channel, LAMBDA c : c.cmd = cmd)
    IN  [i \in 1..Len(updates) |-> updates[i].state]

\* C15: whatever step the SIP task takes, the DialogStateChanged updates it
\* puts on the UI channel and the SetDialogState updates it puts on the Audio
\* channel carry the same phone states in the same order; both channels
\* keep their order and have no other sender of these commands, so the two
\* tasks receive the same sequence.
C15_SameCallStates ==
    PhoneStates(ui_tx, "DialogStateChanged") = PhoneStates(audio_tx, "SetDialogState")

\* A step told both tasks that the call is established.
C15_Witness ==
    /\ PhoneStates(ui_tx, "DialogStateChanged") = << "Established" >>
    /\ PhoneStates(audio_tx, "SetDialogState") = << "Established" >>

-----------------------------------------------------------------------------
(* The jitter buffer (SpecJitterRun, SpecJitter) *)

\* What the i-th pop of a run yields: counting up from the least number
\* pushed, the payload pushed with that number, or silence flagged not real
\* if that number was not pushed (or nothing was).
Expected(pushed, i) ==
    LET n == IF pushed = { } THEN NoSeq ELSE (SetMin(pushed) + i - 1) % 65536
    IN  IF n \in pushed
        THEN [ samples |-> Payload(n), real |-> TRUE ]
        ELSE [ samples |-> SilenceFrame, real |-> FALSE ]

\* C16: after distinct sequence numbers (at most CAP of them) were pushed
\* into a fresh buffer in any order, the pops yield the frames in ascending
\* order of sequence number, starting at the least, with one silence frame
\* for every number that was not pushed; a pop from an empty buffer yields a
\* silence frame flagged not real.
C16_ReorderAndFill ==
    /\ \A i \in 1..Len(jb_run.popped) :
          jb_run.popped[i] =
              Expected({ jb_run.pushed[j] : j \in 1..Len(jb_run.pushed) }, i)
    /\ jb_last.op = "pop" /\ jb_last.jb.frames = << >> =>
          jb_last.out = [ samples |-> SilenceFrame, real |-> FALSE ]

\* Push 2, 1, 4 and pop five times: 1, 2, silence, 4, silence.
C16_Witness ==
    /\ jb_run.pushed = << 2, 1, 4 >>
    /\ jb_run.popped = << [ samples |-> Payload(1), real |-> TRUE ],
                          [ samples |-> Payload(2), real |-> TRUE ],
                          [ samples |-> SilenceFrame, real |-> FALSE ],
                          [ samples |-> Payload(4), real |-> TRUE ],
                          [ samples |-> SilenceFrame, real |-> FALSE ] >>

\* The step just taken pushed a sequence number the full buffer did not hold.
PushedNewToFull ==
    /\ jb_last.op = "push"
    /\ Len(jb_last.jb.frames) = CAP
    /\ \A i \in 1..CAP : jb_last.jb.frames[i].seq # jb_last.seq

\* C17: whatever calls were made, the buffer holds at most CAP frames and no
\* two with the same sequence number; a push of a new sequence number into a
\* full buffer removes the frame that was inserted earliest, and nothing
\* else, and inserts the new one.
C17_BoundedAndEvictsOldest ==
    /\ Len(jb.frames) <= CAP
    /\ \A i, j \in 1..Len(jb.frames) : i # j => jb.frames[i].seq # jb.frames[j].seq
    /\ PushedNewToFull =>
        LET before == { jb_last.jb.frames[i] : i \in 1..CAP }
            after == { jb.frames[i] : i \in 1..Len(jb.frames) }
            oldest == CHOOSE f \in before : \A g \in before : f.at <= g.at
        IN  /\ before \ after = { oldest }
            /\ \E f \in after \ before :
                  /\ after \ before = { f }
                  /\ f.seq = jb_last.seq

\* A new number was pushed into a full buffer, which is full again.
C17_Witness ==
    /\ PushedNewToFull
    /\ Len(jb.frames) = CAP
    /\ jb.frames[CAP].seq = jb_last.seq

-----------------------------------------------------------------------------
(* RTP packets (SpecCodec) *)

\* C20: for a header with version <= 3, CSRC count <= 15 and payload type
\* <= 127 and a payload of at most N bytes, unpacking what pack produced
\* gives back that header and that payload; unpacking fewer than 12 bytes
\* fails with InvalidPacket.
C20_RoundTrip ==
    codec.stage = "unpacked" =>
        /\ ( /\ codec.packed
             /\ codec.header.version <= 3
             /\ codec.header.csrc_count <= 15
             /\ codec.header.payload_type <= 127
             /\ Len(codec.payload) <= N ) =>
                codec.result = [ ok |-> TRUE, header |-> codec.header,
                                 payload |-> codec.payload ]
        /\ Len(codec.bytes) < 12 =>
                codec.result = [ ok |-> FALSE, error |-> "InvalidPacket" ]

\* The packet of the unit test went through pack and unpack: 16 bytes, the
\* marker in the top bit of the second.
C20_Witness ==
    /\ codec.stage = "unpacked"
    /\ codec.packed
    /\ codec.header = [ version |-> 2, padding |-> FALSE, extension |-> FALSE,
                        csrc_count |-> 0, marker |-> TRUE, payload_type |-> 0,
                        sequence_number |-> 42, timestamp |-> U32(0, 160),
                        ssrc |-> U32(4386, 13124) ]
    /\ codec.payload = << 1, 2, 3, 4 >>
    /\ codec.bytes = << 128, 128, 0, 42, 0, 0, 0, 160, 17, 34, 51, 68, 1, 2, 3, 4 >>
    /\ codec.result.ok

-----------------------------------------------------------------------------
(* The RTP task's receive filter (SpecRtp) *)

\* C18: a datagram read while the stream is active is forwarded exactly if
\* it has at least 12 bytes, comes from the signaled IP (from any port),
\* unpacks, carries the expected payload type and carries the expected SSRC
\* if one is set; the forwarded packet's SSRC is the expected one from then
\* on, so all packets forwarded since the last StartStream or StopStream that
\* took effect carry one SSRC.
C18_RxFilter ==
    /\ rtp_last.op = "rx" =>
        LET before == rtp_last.task
            d == rtp_last.input
            pkt == Unpack(d.bytes)
        IN  /\ before.active
            /\ rtp_last.forwarded # << >> <=>
                  /\ Len(d.bytes) >= 12
                  /\ d.addr.ip = before.signaled_ip
                  /\ pkt.ok
                  /\ pkt.header.payload_type = before.payload_type
                  /\ before.expected_remote_ssrc \in { NoSsrc, pkt.header.ssrc }
            /\ rtp_last.forwarded # << >> =>
                  /\ rtp_last.forwarded =
                         << [ header |-> pkt.header, payload |-> pkt.payload ] >>
                  /\ rtp_task.expected_remote_ssrc = pkt.header.ssrc
    /\ Cardinality(rtp_fwd) <= 1
    /\ rtp_fwd # { } => rtp_task.active /\ rtp_fwd = { rtp_task.expected_remote_ssrc }

\* With no SSRC configured a packet from another port of the signaled host
\* was forwarded and set the expected SSRC.
C18_Witness ==
    /\ rtp_last.op = "rx"
    /\ rtp_last.forwarded # << >>
    /\ rtp_last.task.expected_remote_ssrc = NoSsrc
    /\ rtp_last.input.addr.port # rtp_last.task.signaled_peer.port
    /\ rtp_task.expected_remote_ssrc = U32(65535, 65535)

-----------------------------------------------------------------------------
(* Button gestures (SpecUi) *)

\* C19: a poll that finds the button changed sends exactly one StateChanged
\* with the new state, and a poll that finds it unchanged sends nothing.  On
\* a release of a press the task saw begin, the StateChanged is followed by
\* ShortPress if the button was held at most 650 ms and no ShortPress that a
\* DoubleTap has not followed was sent in the 400 ms before, by DoubleTap
\* instead if it was held at most 650 ms and such a ShortPress was sent at
\* most 400 ms before, and by nothing if it was held longer.  Nothing else
\* is sent.
C19_Gestures ==
    ui_last.op = "poll" =>
        LET changed == << [ event |-> "StateChanged", state |-> ui_last.state ] >>
            released == ui_last.was = "Pressed" /\ ui_last.state = "Released"
            short == ui_last.held # NoInstant /\ ui_last.held <= 650
            paired == ui_last.gap # NoInstant /\ ui_last.gap <= 400
        IN  ui_last.events =
                IF ui_last.state = ui_last.was THEN << >>
                ELSE IF released /\ short /\ paired
                THEN changed \o << [ event |-> "DoubleTap" ] >>
                ELSE IF released /\ short
                THEN changed \o << [ event |-> "ShortPress" ] >>
                ELSE changed

\* A press held 360 ms is released 400 ms after a ShortPress: DoubleTap.
C19_Witness ==
    /\ ui_last.op = "poll"
    /\ ui_last.held = 360
    /\ ui_last.gap = 400
    /\ ui_last.events = << [ event |-> "StateChanged", state |-> "Released" ],
                           [ event |-> "DoubleTap" ] >>

-----------------------------------------------------------------------------
(* The mu-law codec (SpecUlaw) *)

\* The i-th value of the run is a byte; otherwise it is a sample.
ByteAt(i) == (ulaw.first = "byte") = (i % 2 = 1)

\* C21: for every mu-law byte b, decoding what encode makes of decode(b)
\* gives decode(b) again, and so a second encoding gives the byte of the
\* first: in a run b, decode, encode, decode, encode the two samples are
\* equal and the two encoded bytes are equal.
C21_DecodeStable ==
    ulaw.first = "byte" =>
        /\ Len(ulaw.trail) >= 4 => ulaw.trail[4] = ulaw.trail[2]
        /\ Len(ulaw.trail) >= 5 => ulaw.trail[5] = ulaw.trail[3]

\* The run from the second zero code: the byte changes, the sample does not.
C21_Witness ==
    /\ ulaw.first = "byte"
    /\ Len(ulaw.trail) = 5
    /\ ulaw.trail[1] = 127
    /\ ulaw.trail[3] # ulaw.trail[1]
    /\ ulaw.trail[4] = ulaw.trail[2]

\* C22 as stated: the bytes 0x00 and 0x7F decode to 0, and the sample 0 is
\* encoded as 0xFF.
C22_SpecialValues ==
    \A i \in 1..(Len(ulaw.trail) - 1) :
        /\ ByteAt(i) /\ ulaw.trail[i] \in { 0, 127 } => ulaw.trail[i + 1] = 0
        /\ ~ByteAt(i) /\ ulaw.trail[i] = 0 => ulaw.trail[i + 1] = 255

\* C22: the bytes 0xFF and 0x7F, and no other byte, decode to 0; the sample
\* 0 is encoded as 0xFF; the byte 0x00 decodes to -32124, the most negative
\* sample of the code.
C22_ZeroCodes ==
    \A i \in 1..(Len(ulaw.trail) - 1) :
        /\ ByteAt(i) => (ulaw.trail[i + 1] = 0 <=> ulaw.trail[i] \in { 255, 127 })
        /\ ByteAt(i) /\ ulaw.trail[i] = 0 => ulaw.trail[i + 1] = -32124
        /\ ~ByteAt(i) /\ ulaw.trail[i] = 0 => ulaw.trail[i + 1] = 255

C22_Witness == ulaw.trail = << 127, 0, 255, 0 >>

-----------------------------------------------------------------------------
(* INVITE retransmissions, ACKs and re-INVITEs of a call (Spec) *)

\* The INVITE that created the ringing dialog arrived again.
InviteRetransmitted(step) ==
    /\ ReceivedInvite(step)
    /\ step.dialog.state = "Ringing"
    /\ step.dialog.role = "Uas"
    /\ step.input = step.dialog.original_invite
    /\ step.input.to_tag = NoTag

\* C23: a retransmission of the INVITE that created the ringing call (same
\* Call-ID, CSeq and From tag, no To tag) makes the task only re-send the
\* response stored for it: nothing else is sent in that step, and the
\* INVITE's transaction holds no final response that the user did not cause
\* by answering.
C23_RetransmissionOnlyResends ==
    InviteRetransmitted(last) =>
        /\ \A i \in 1..Len(sent) : sent[i].via = "resend"
        /\ \A i \in 1..Len(transactions) :
              Key(transactions[i]) = Key(last.input) =>
                  \/ transactions[i].last_response.status_code < 200
                  \/ Key(last.input) \in last.answered

\* C24: the dialog is Established, and an ACK makes the task issue a
\* StartStream, only after a 200 was sent for the call's INVITE because the
\* user answered: an ACK handled while the call rings and was not answered
\* does not establish it.
C24_EstablishedOnlyAfterAnswer ==
    /\ dialog.state = "Established" => answered # { }
    /\ ( /\ last.op = "recv"
         /\ last.input.method = "ACK"
         /\ \E i \in 1..Len(rtp_tx) : rtp_tx[i].cmd = "StartStream" ) =>
             last.answered # { }
    /\ (AckMatchedRinging(last) /\ last.answered = { }) => dialog.state = "Ringing"

\* The kind the specification gives an INVITE: in-dialog exactly when the
\* dialog is Ringing or Established as UAS, Call-ID and From tag are the
\* dialog's, and the local tag is empty or equals the To tag; otherwise
\* Initial when the dialog is Idle or Terminated, InitialWhileBusy if not.
StatedKind(dlg, req) ==
    IF /\ dlg.state \in { "Ringing", "Established" }
       /\ dlg.role = "Uas"
       /\ req.call_id = dlg.id.call_id
       /\ req.from_tag = dlg.id.remote_tag
       /\ (dlg.id.local_tag = NoTag \/ req.to_tag = dlg.id.local_tag)
    THEN "Reinvite"
    ELSE IF dlg.state \in { "Idle", "Terminated" } THEN "Initial"
    ELSE "InitialWhileBusy"

\* C28: every INVITE the task receives is classified by the dialog core as
\* the specification states, and one without a To tag is not in-dialog once
\* the local tag is set.
C28_InviteKind ==
    ReceivedInvite(last) =>
        /\ HandleIncomingInvite(last.dialog, last.input).kind
               = StatedKind(last.dialog, last.input)
        /\ ( /\ HasId(last.dialog)
             /\ last.dialog.id.local_tag # NoTag
             /\ last.input.to_tag = NoTag ) =>
                 HandleIncomingInvite(last.dialog, last.input).kind # "Reinvite"

\* An in-dialog INVITE with a body that parses was handled.
ReinviteWithSdp(step) ==
    /\ ReceivedInvite(step)
    /\ HandleIncomingInvite(step.dialog, step.input).kind = "Reinvite"
    /\ SdpParse(step.input.body).ok

\* C29: an in-dialog re-INVITE with a parseable body replaces the stored
\* remote SDP and is answered 200 with the current local SDP; RTP gets a
\* command in that step only if the dialog is already Established.
C29_ReinviteRepoints ==
    ReinviteWithSdp(last) =>
        /\ call_ctx.some
        /\ call_ctx.remote_sdp = SdpParse(last.input.body)
        /\ Cardinality(Originals(200)) = 1
        /\ \A i \in Originals(200) : sent[i].response.body = call_ctx.local_sdp
        /\ rtp_tx # << >> => last.dialog.state = "Established"

\* A StartStream was issued in the last step.
StartStreamIssued == \E i \in 1..Len(rtp_tx) : rtp_tx[i].cmd = "StartStream"

\* C26: a StartStream is issued only in a step in which the dialog enters
\* Established or an in-dialog re-INVITE brings a remote SDP; an ACK handled
\* while the dialog is already Established issues none, so the stream of a
\* running call is not started anew.
C26_StartStreamOnlyOnEntry ==
    /\ StartStreamIssued =>
          \/ last.dialog.state # "Established" /\ dialog.state = "Established"
          \/ ReinviteWithSdp(last)
    /\ ( /\ last.op = "recv"
         /\ last.input.method = "ACK"
         /\ last.dialog.state = "Established" ) => ~StartStreamIssued

\* C30: at the end of every iteration of the task loop a call context is
\* stored exactly when the dialog is Ringing or Established.
C30_ContextIffCall ==
    pc = "sleep" => (call_ctx.some <=> dialog.state \in { "Ringing", "Established" })

-----------------------------------------------------------------------------
(* Calls nobody answers (SpecLive) *)

\* The dialog rings as UAS and the user has not answered.
RingingUnanswered ==
    dialog.state = "Ringing" /\ dialog.role = "Uas" /\ answered = { }

\* The last step took a datagram or a button event.
InputArrived == last.op \in { "recv", "button" }

\* C27: whenever the dialog rings as UAS for a call that was not answered,
\* then, unless a button event or another SIP message arrives, the dialog
\* eventually is Terminated (phone state Idle), the state in which a new
\* initial INVITE is accepted.
C27_UnansweredCallEnds ==
    (RingingUnanswered /\ ~InputArrived) ~> (dialog.state = "Terminated" \/ InputArrived)

-----------------------------------------------------------------------------
(* Push to talk (SpecPtt) *)

\* C25: whenever the button is released and every button event and every
\* command sent to the Audio task has been handled, the mode of the Audio
\* task is Listen and, once update_engine has run, its engine is not the
\* Talk engine.
C25_ListenUnlessHeld ==
    (button = "Released" /\ audio_q = << >>) =>
        /\ audio_task.mode = "Listen"
        /\ audio_task.pc = "wait" => audio_task.engine # "Talk"

-----------------------------------------------------------------------------
(* When a REGISTER is sent (SpecReg) *)

\* C31: a REGISTER is sent only by maybe_send_register, only when the register
\* timer has elapsed, and one at a time; an iteration that finds the timer
\* running sends nothing and leaves the registration alone, whatever its
\* state; one that finds the timer elapsed with the state Registering first
\* resets the registration to Unregistered (reported to the UI) and then
\* sends a new REGISTER, built as from Unregistered: the initial Expires,
\* the next CSeq, and the state Registering again.
C31_RegisterWhenDue ==
    /\ reg_last.op # "register" => reg_sent = << >>
    /\ reg_last.op = "register" =>
        /\ reg_sent # << >> =>
            /\ Reached(reg_last.next_register)
            /\ Len(reg_sent) = 1
            /\ registration.state = "Registering"
            /\ reg_sent[1].cseq = reg_last.registration.cseq + 1
        /\ ~Reached(reg_last.next_register) =>
            /\ reg_sent = << >>
            /\ registration = reg_last.registration
        /\ TimedOut =>
            /\ last_reg_state = "Unregistered"
            /\ Len(reg_sent) = 1
            /\ reg_sent[1].expires = InitialExpires
        /\ (Reached(reg_last.next_register) /\ ~TimedOut) => reg_sent # << >>

\* An attempt timed out after a first REGISTER and the second one went out.
C31_Witness ==
    /\ TimedOut
    /\ Len(reg_sent) = 1
    /\ reg_sent[1].cseq = 2
    /\ reg_last.prev.cseq = 1

-----------------------------------------------------------------------------
(* The Audio task: engine, device and exit (SpecAudio) *)

\* C32: when the Audio task has left its loop because its command channel
\* was disconnected, and a Listen or Talk engine was running when it first
\* found the channel disconnected, it has called stop_current since.
C32_StopsDeviceOnExit ==
    (audio_task.pc = "exited" /\ audio_task.seen \in { "Listen", "Talk" }) =>
        audio_task.stopped

\* The start of the engine update_engine wanted failed: the driver could not
\* be created or, for Listen, not enabled.
StartFailed ==
    LET want == Want(audio_task.call_state, audio_task.mode)
    IN  /\ want = "Listen" => ~audio_last.input.made \/ ~audio_last.input.enabled
        /\ want = "Talk" => ~audio_last.input.made

\* C34: after update_engine the engine is the one wanted for (call state,
\* mode): Listen for (Established, Listen), Talk for (Established, Talk), Off
\* otherwise; or it is Off because the device failed to start.  A running
\* Listen engine has the TX driver and a running Talk engine the RX driver;
\* an engine that was running and is replaced has had its driver dropped; and
\* at no time do the TX and the RX driver both exist.
C34_EngineIsDesired ==
    /\ ~(audio_task.device.tx /\ audio_task.device.rx)
    /\ audio_last.op = "update" =>
        /\ \/ audio_task.engine = Want(audio_task.call_state, audio_task.mode)
           \/ audio_task.engine = "Off" /\ StartFailed
        /\ audio_task.engine = "Listen" => audio_task.device.tx
        /\ audio_task.engine = "Talk" => audio_task.device.rx
        /\ (audio_last.task.engine = "Listen" /\ audio_task.engine # "Listen") =>
               ~audio_task.device.tx
        /\ (audio_last.task.engine = "Talk" /\ audio_task.engine # "Talk") =>
               ~audio_task.device.rx

\* update_engine replaced a running Listen engine by the Talk engine.
C34_Witness ==
    /\ audio_last.op = "update"
    /\ audio_last.task.engine = "Listen"
    /\ audio_last.task.device.tx
    /\ audio_task.engine = "Talk"
    /\ audio_task.device = [ tx |-> FALSE, rx |-> TRUE ]

-----------------------------------------------------------------------------
(* The 20 ms schedulers (SpecTicks) *)

\* C33: when a due tick has been handled (playout or capture tick of the
\* Audio task, send tick of the RTP task) the next deadline is the deadline
\* that was due plus a whole number, at least one, of 20 ms periods, and it
\* is strictly in the future.
C33_TicksFromDeadline ==
    /\ (audio_last.op = "frame" /\ audio_last.due.some) =>
        /\ audio_task.next.at > audio_last.due.at
        /\ (audio_task.next.at - audio_last.due.at) % FRAME_DURATION = 0
        /\ audio_task.next.at > 0
    /\ rtp_tick.sched.some =>
        /\ rtp_tick.sched.next > rtp_tick.sched.due
        /\ (rtp_tick.sched.next - rtp_tick.sched.due) % TICK = 0
        /\ rtp_tick.sched.next > 0

-----------------------------------------------------------------------------
(* The jitter buffer call by call (SpecJitter) *)

\* The frames a buffer holds, as a set, and their sequence numbers.
Held(b) == { b.frames[i] : i \in 1..Len(b.frames) }

HeldSeqs(b) == { f.seq : f \in Held(b) }

\* The sequence number a pop expects: next_seq, or the least number held if
\* next_seq is unset and the buffer is not empty.
ExpectedSeq(b) ==
    IF b.next_seq = NoSeq /\ b.frames # << >> THEN SetMin(HeldSeqs(b)) ELSE b.next_seq

\* The step just taken was a pop that expected a number it did not find.
PoppedAbsent ==
    /\ jb_last.op = "pop"
    /\ ExpectedSeq(jb_last.jb) # NoSeq
    /\ ExpectedSeq(jb_last.jb) \notin HeldSeqs(jb_last.jb)

\* C35: a pop with the expected number unset and frames held expects the
\* least number held.  If the expected frame is held, its samples are
\* returned, it leaves the buffer and expected moves on by one; if it is not
\* held and the buffer is not full, silence is returned, the buffer keeps its
\* frames and expected moves on by one; if it is not held and the buffer is
\* full, the frame with the least number is returned and leaves the buffer,
\* and expected is that number plus one.
C35_PopFrame ==
    jb_last.op = "pop" =>
        LET b == jb_last.jb
            e == ExpectedSeq(b)
        IN  /\ (e # NoSeq /\ e \in HeldSeqs(b)) =>
                \E f \in Held(b) :
                    /\ f.seq = e
                    /\ jb_last.out = [ samples |-> f.samples, real |-> TRUE ]
                    /\ Held(jb) = Held(b) \ { f }
                    /\ jb.next_seq = (e + 1) % 65536
            /\ (PoppedAbsent /\ Len(b.frames) < CAP) =>
                /\ jb_last.out = [ samples |-> SilenceFrame, real |-> FALSE ]
                /\ jb.frames = b.frames
                /\ jb.next_seq = (e + 1) % 65536
            /\ (PoppedAbsent /\ Len(b.frames) = CAP) =>
                \E f \in Held(b) :
                    /\ \A g \in Held(b) : f.seq <= g.seq
                    /\ jb_last.out = [ samples |-> f.samples, real |-> TRUE ]
                    /\ Held(jb) = Held(b) \ { f }
                    /\ jb.next_seq = (f.seq + 1) % 65536

\* A pop found the buffer full without the frame it expected and skipped
\* ahead, past more than one number.
C35_Witness ==
    /\ PoppedAbsent
    /\ Len(jb_last.jb.frames) = CAP
    /\ jb_last.out.real
    /\ jb.next_seq > ExpectedSeq(jb_last.jb) + 1

\* a is later than b in the order of u16 sequence numbers that wrap around.
Later(a, b) == (a - b) % 65536 \in 1..32767

\* C36: a real frame returned by a pop has a sequence number later, in
\* wrap-around order, than the real frame returned before it since the buffer
\* was new or reset.
C36_PlayoutInOrder ==
    (jb_last.op = "pop" /\ jb_last.out.real /\ jb_last.played_before # NoSeq) =>
        Later(jb_last.played, jb_last.played_before)

\* The frames a buffer stores: sequence number and samples.
Stored(b) == { [ seq |-> f.seq, samples |-> f.samples ] : f \in Held(b) }

\* C37: a push of a sequence number the buffer holds leaves the set of
\* stored frames as it was, full buffer or not.
C37_DuplicatePush ==
    (jb_last.op = "push" /\ jb_last.seq \in HeldSeqs(jb_last.jb)) =>
        Stored(jb) = Stored(jb_last.jb)

\* The responses one step builds (not the ones the transaction layer sends
\* again) for an INVITE of the call of dialog `dlg`, with one of the statuses
\* the endpoint uses for the call's INVITE.
CallInviteResponses(dlg) ==
    { sent[i].response : i \in { j \in 1..Len(sent) :
          /\ sent[j].via # "resend"
          /\ sent[j].response.cseq_method = "INVITE"
          /\ sent[j].response.call_id = dlg.id.call_id
          /\ sent[j].response.from_tag = dlg.id.remote_tag
          /\ sent[j].response.status_code \in { 180, 200, 480, 487 } } }

\* The step found a dialog whose local tag an earlier response committed.
TagCommitted(step) ==
    /\ step.op # "new"
    /\ HasId(step.dialog)
    /\ step.dialog.id.local_tag # NoTag

\* C38: every 180, 200, 480 or 487 built for the INVITE of the call carries
\* the dialog's local tag: the tag the step found committed, or the tag the
\* step's first response committed.
C38_SameToTag ==
    /\ TagCommitted(last) =>
           \A r \in CallInviteResponses(last.dialog) :
               r.to_tag = last.dialog.id.local_tag
    /\ (~TagCommitted(last) /\ HasId(dialog) /\ dialog.id.local_tag # NoTag) =>
           \A r \in CallInviteResponses(dialog) :
               r.to_tag = dialog.id.local_tag

\* The step handled a CANCEL.
CancelHandled(step) ==
    /\ step.op = "recv"
    /\ step.input.method = "CANCEL"

\* The CANCEL of the step matches the ringing UAS dialog the step found.
CancelMatches(step) ==
    /\ step.dialog.state = "Ringing"
    /\ step.dialog.role = "Uas"
    /\ step.input.call_id = step.dialog.id.call_id
    /\ step.input.from_tag = step.dialog.id.remote_tag

\* C40: a CANCEL that matches the ringing UAS dialog and can be answered is
\* answered 200, the INVITE is answered 487 and the dialog is Terminated;
\* every other CANCEL leaves the dialog as it was and nothing is sent and no
\* state change is reported.
C40_CancelOnlyOnMatch ==
    CancelHandled(last) =>
        IF CancelMatches(last) /\ Buildable(last.input)
        THEN /\ Len(sent) = 2
             /\ sent[1].response.status_code = 200
             /\ sent[1].response.cseq_method = "CANCEL"
             /\ sent[2].response.status_code = 487
             /\ sent[2].response.cseq_method = "INVITE"
             /\ dialog.state = "Terminated"
        ELSE /\ dialog = last.dialog
             /\ sent = << >>
             /\ ui_tx = << >>
             /\ call_ctx = last.ctx

\* The keys (Call-ID, CSeq number) of the INVITEs a peer sends here.
InviteKeys == { Key(req) : req \in Invites }

\* C39: an INVITE server transaction the manager tracks is eventually
\* removed by the polling of the timers, as long as time keeps advancing
\* towards the instants the task waits for, whatever else arrives.
C39_TransactionsRemoved ==
    \A k \in InviteKeys :
        (k \in TxKeys(transactions))
            ~> (k \notin TxKeys(transactions) \/ sleeps_left = 0)

=============================================================================
